---- MODULE Spec2Model ----
(***************************************************************************)
(* A model of the stock-alerts signal engines.                             *)
(*                                                                         *)
(*   Spec          the weekly engine (weekly_canadian_ticker.py): runs of  *)
(*                 run_base_analysis against the MongoDB collections, the  *)
(*                 SMTP server and the clock.                              *)
(*   SpecResolver  the resolver loop of run_base_analysis applied to every *)
(*                 minimum map and every price of the bounded domain.      *)
(*   SpecDaily     the daily amount-bucket engine (runner.py): run_once.   *)
(*                                                                         *)
(* Prices are integers; Python's None, a raised exception and NaN are the  *)
(* negative numbers below, so that they never compare equal to a price.    *)
(* Instants are integers, TicksPerDay of them to a local day.              *)
(***************************************************************************)
EXTENDS Integers, Sequences, FiniteSets, TLC

VARIABLES
    TICKERS,            \* weekly_canadian_ticker.TICKERS (module global)
    now,                \* the clock (an instant)
    daily_log_col,      \* DailyLog singleton: lastUpdateDatetime, or None
    exec_for_week_col,  \* ExecutionComparedToWeekCanada: sequence of documents
    email_log_col,      \* EmailLog: sequence of documents
    mailbox,            \* the messages the SMTP server accepted
    fetch_log,          \* the local days on which yesterday's bars were fetched
    pc,                 \* per run: where run_base_analysis stands
    today_local,        \* per run: the local date read when the run began
    week_to_tickers,    \* per run: the resolver's (pre-filter) result
    previously_reported,\* per run: the set load_previously_reported_pairs gave
    rows,               \* per run: aggregate_week_matches of the filtered result
    sent,               \* per run: what send_email returned
    price_5m_col,       \* SpecOverlap: the tickers with bars in PriceFor5MinuteInterval
    min_by_interval,    \* SpecResolver: the minimum map handed to the loop
    arg_bars,           \* SpecWeeks: per ticker, the Close of its bar in each week
    current,            \* SpecResolver: fetch_current_price's outcome per ticker
    resolved,           \* SpecResolver: the loop's result
    cache_date,         \* runner: the contents of data/.cache_date ("" = no file)
    history_csv,        \* runner: per ticker, the cached <ticker>_history.csv
    intra,              \* runner: what fetch_intraday_batch returned
    snapshot,           \* runner: per ticker, what the fast_info lookup gave
    results,            \* runner: run_once's results list
    t_idx,              \* runner: the position of run_once's ticker loop
    runner_ok,          \* runner: run_once's ok flag
    runner_pc,          \* runner: where run_once stands
    first_run_log,      \* runner: per call of is_first_run_today, its day and answer
    arg_latest,         \* SpecBucket: the latest price handed to invest_bucket
    arg_m30,            \* SpecBucket: the 30-day metrics
    arg_m90,            \* SpecBucket: the 90-day metrics
    ret_bucket,         \* SpecBucket: what invest_bucket returned
    ret_state_doc,      \* SpecBucket: the fields of state_doc the ticker was added to
    arg_current,        \* SpecBucket: the current price handed to the week scan
    arg_minimums,       \* SpecBucket: one ticker's minimum per week window
    ret_weeks,          \* SpecBucket: week_to_tickers after the scan
    arg_close_series,   \* SpecMetrics: the close values, oldest first
    arg_low_series,     \* SpecMetrics: the low values, oldest first
    arg_window_days,    \* SpecMetrics: the window length
    arg_since,          \* SpecMetrics: the lower bound on ts of a week facet
    ret_metrics,        \* SpecMetrics: what runner.compute_window_metrics returned
    ret_alerts_metrics, \* SpecMetrics: what alerts.compute_metrics returned
    ret_results,        \* SpecMetrics: run_once's results for the one ticker
    ret_facet,          \* SpecMetrics: the facet's minimumClose for the ticker
    arg_col,            \* SpecDedup: the execution collection that is queried
    arg_now,            \* SpecDedup: the clock at the query
    ret_pairs,          \* SpecDedup: what load_previously_reported_pairs returned
    arg_w2t,            \* SpecDedup: the week_to_tickers handed to the filter
    arg_reported,       \* SpecDedup: the reported pairs the filter loaded
    ret_filtered        \* SpecDedup: what the filter returned

weeklyVars == <<now, daily_log_col, exec_for_week_col, email_log_col, mailbox,
                fetch_log, pc, today_local, week_to_tickers, previously_reported,
                rows, sent, price_5m_col>>
resolverVars == <<min_by_interval, arg_bars, current, resolved>>
dailyVars == <<cache_date, history_csv, intra, snapshot, results, t_idx, runner_ok,
               runner_pc, first_run_log>>
bucketVars == <<arg_latest, arg_m30, arg_m90, ret_bucket, ret_state_doc, arg_current,
                arg_minimums, ret_weeks>>
metricsVars == <<arg_close_series, arg_low_series, arg_window_days, arg_since,
                 ret_metrics, ret_alerts_metrics, ret_results, ret_facet>>
dedupVars == <<arg_col, arg_now, ret_pairs, arg_w2t, arg_reported, ret_filtered>>
pureVars == <<bucketVars, metricsVars, dedupVars>>
vars == <<TICKERS, weeklyVars, resolverVars, dailyVars, pureVars>>

(***************************************************************************)
(* Bounds                                                                  *)
(***************************************************************************)
MaxPrice == 2
MaxWeekSpan == 2
MaxRuns == 2
MaxTime == 2
MaxEnvLen == 2
MaxCalls == 2

TicksPerDay == 2

Prices == 1..MaxPrice
Runs == 1..MaxRuns
Times == 0..MaxTime

None == -1
Raise == -2

(***************************************************************************)
(* helper.parse_tickers and the TICKERS global                             *)
(***************************************************************************)
DefaultTickers == <<"BCE.TO", "BNS.TO">>
AllTickers == {"BCE.TO", "BNS.TO"}
RawTokens == {"bce.to", "BCE.TO", "BNS.TO"}

\* str.strip().upper() on the tokens of the domain
upper(tok) == IF tok = "bce.to" THEN "BCE.TO" ELSE tok

RECURSIVE fromkeys(_, _)
\* list(dict.fromkeys(xs)): first occurrences, in order
fromkeys(xs, seen) ==
    IF xs = <<>> THEN <<>>
    ELSE IF Head(xs) \in seen THEN fromkeys(Tail(xs), seen)
         ELSE <<Head(xs)>> \o fromkeys(Tail(xs), seen \cup {Head(xs)})

\* parse_tickers without the de-duplication
parse_tickers_keep_duplicates(env_value, default) ==
    IF env_value.unset THEN default
    ELSE [i \in 1..Len(env_value.tokens) |-> upper(env_value.tokens[i])]

\* env_value: unset (None or empty), else the tokens the comma/whitespace
\* (or JSON) split of the string yields
parse_tickers(env_value, default) ==
    IF env_value.unset THEN default
    ELSE fromkeys([i \in 1..Len(env_value.tokens) |-> upper(env_value.tokens[i])], {})

RECURSIVE SeqsUpTo(_, _)
SeqsUpTo(S, n) ==
    IF n = 0 THEN {<<>>}
    ELSE LET shorter == SeqsUpTo(S, n - 1)
         IN shorter \cup {Append(s, x) : s \in shorter, x \in S}

EnvValues ==
    {[unset |-> TRUE, tokens |-> <<>>]}
        \cup {[unset |-> FALSE, tokens |-> s] : s \in SeqsUpTo(RawTokens, MaxEnvLen)}

(***************************************************************************)
(* Week windows                                                            *)
(***************************************************************************)
WEEK_SPANS == [w \in 1..MaxWeekSpan |-> w]

SincePast(w) == "sincePast" \o ToString(w) \o "Weeks"

WEEK_FIELDS == <<"sinceThisWeek">> \o [i \in 1..Len(WEEK_SPANS) |-> SincePast(WEEK_SPANS[i])]

WeekNames == {WEEK_FIELDS[i] : i \in 1..Len(WEEK_FIELDS)}

\* week_sort_key with the depths reversed in sign
week_sort_key_negated(name) ==
    IF name = "sinceThisWeek" THEN 0
    ELSE IF \E n \in 0..(MaxWeekSpan + 1) : name = SincePast(n)
         THEN 0 - (CHOOSE n \in 0..(MaxWeekSpan + 1) : name = SincePast(n))
         ELSE 0

week_sort_key(name) ==
    IF name = "sinceThisWeek" THEN 0
    ELSE IF \E n \in 0..(MaxWeekSpan + 1) : name = SincePast(n)
         THEN CHOOSE n \in 0..(MaxWeekSpan + 1) : name = SincePast(n)
         ELSE 0

RemoveAt(s, i) == [j \in 1..(Len(s) - 1) |-> IF j < i THEN s[j] ELSE s[j + 1]]

RECURSIVE sorted_reverse(_)
\* sorted(keys, key=week_sort_key, reverse=True): stable, greatest key first
sorted_reverse(keys) ==
    IF keys = <<>> THEN <<>>
    ELSE LET i == CHOOSE i \in 1..Len(keys) :
                    /\ \A j \in 1..Len(keys) : week_sort_key(keys[j]) <= week_sort_key(keys[i])
                    /\ \A j \in 1..(i - 1) : week_sort_key(keys[j]) < week_sort_key(keys[i])
         IN <<keys[i]>> \o sorted_reverse(RemoveAt(keys, i))

ordered_week_keys == sorted_reverse(WEEK_FIELDS)

\* the weeks bars are drawn in: week MondaySlot begins at this week's Monday
\* 09:00, week 0 lies before the start of the oldest window
MondaySlot == MaxWeekSpan + 1

Slots == 0..MondaySlot

\* no bar at all in PriceFor5MinuteInterval
NoBars == [t \in AllTickers |-> [s \in Slots |-> None]]

\* every map {facet: {ticker: minimumClose}}; a ticker without a row is None
AllMinMaps == [WeekNames -> [AllTickers -> Prices \cup {None}]]

\* the maps the $facet pipeline can return: the facets' time ranges are
\* nested (each starts at Monday 09:00 minus w weeks and is open-ended), so a
\* ticker with a row in a facet has one in every deeper facet, with a minimum
\* that is no greater
fetch_minimum_close_byweek_for_ticker ==
    {m \in AllMinMaps :
        \A t \in AllTickers : \A a, b \in WeekNames :
            (week_sort_key(a) < week_sort_key(b) /\ m[a][t] # None)
                => (m[b][t] # None /\ m[b][t] <= m[a][t])}

(***************************************************************************)
(* The resolver loop of run_base_analysis                                  *)
(***************************************************************************)
EmptyWeeks == [wk \in WeekNames |-> <<>>]

Entry(ticker, cur, minimum_price) ==
    [ticker |-> ticker, currentPrice |-> cur, minimumPrice |-> minimum_price]

RECURSIVE scan_weeks_stop_at_none(_, _, _, _, _)
\* the scan leaving at the first window without a minimum for the ticker
scan_weeks_stop_at_none(w2t, keys, mbi, ticker, cur) ==
    IF keys = <<>> THEN w2t
    ELSE LET wk == Head(keys)
             minimum_price == mbi[wk][ticker]
         IN IF minimum_price = None
            THEN w2t
            ELSE IF cur < minimum_price
                 THEN [w2t EXCEPT ![wk] = Append(@, Entry(ticker, cur, minimum_price))]
                 ELSE scan_weeks_stop_at_none(w2t, Tail(keys), mbi, ticker, cur)

RECURSIVE scan_weeks(_, _, _, _, _)
\* for wk in ordered_week_keys: ... break
scan_weeks(w2t, keys, mbi, ticker, cur) ==
    IF keys = <<>> THEN w2t
    ELSE LET wk == Head(keys)
             minimum_price == mbi[wk][ticker]
         IN IF minimum_price = None
            THEN scan_weeks(w2t, Tail(keys), mbi, ticker, cur)
            ELSE IF cur < minimum_price
                 THEN [w2t EXCEPT ![wk] = Append(@, Entry(ticker, cur, minimum_price))]
                 ELSE scan_weeks(w2t, Tail(keys), mbi, ticker, cur)

RECURSIVE ticker_loop_stop_at_none(_, _, _, _, _)
\* the outer loop leaving at the first ticker without a price
ticker_loop_stop_at_none(w2t, tickers, keys, mbi, price) ==
    IF tickers = <<>> THEN [raised |-> FALSE, weeks |-> w2t]
    ELSE LET cur == price[Head(tickers)]
         IN IF cur = Raise THEN [raised |-> TRUE, weeks |-> w2t]
            ELSE IF cur = None THEN [raised |-> FALSE, weeks |-> w2t]
            ELSE ticker_loop_stop_at_none(scan_weeks(w2t, keys, mbi, Head(tickers), cur),
                                          Tail(tickers), keys, mbi, price)

RECURSIVE ticker_loop(_, _, _, _, _)
\* for ticker in TICKERS: ...; raised when fetch_current_price raises
ticker_loop(w2t, tickers, keys, mbi, price) ==
    IF tickers = <<>> THEN [raised |-> FALSE, weeks |-> w2t]
    ELSE LET cur == price[Head(tickers)]
         IN IF cur = Raise THEN [raised |-> TRUE, weeks |-> w2t]
            ELSE IF cur = None
                 THEN ticker_loop(w2t, Tail(tickers), keys, mbi, price)
                 ELSE ticker_loop(scan_weeks(w2t, keys, mbi, Head(tickers), cur),
                                  Tail(tickers), keys, mbi, price)

\* what fetch_current_price can give for one ticker
PriceOutcomes == Prices \cup {None, Raise}


(***************************************************************************)
(* Time                                                                    *)
(***************************************************************************)
\* datetime.now(TZ).date()
LocalDate(t) == t \div TicksPerDay

\* a range that starts at the local midnight of yesterday
get_today_utc_range_two_days(t) ==
    <<LocalDate(t) * TicksPerDay - TicksPerDay, LocalDate(t) * TicksPerDay + TicksPerDay>>

\* (start_utc, end_utc): local midnight of today and of tomorrow
get_today_utc_range(t) ==
    <<LocalDate(t) * TicksPerDay, LocalDate(t) * TicksPerDay + TicksPerDay>>

(***************************************************************************)
(* The execution collection and the dedup state                            *)
(***************************************************************************)
\* an execution document flagged notified whatever the caller asked
execution_doc_always_notified(id, w2t, isNotified, t) ==
    [id |-> id, createDatetime |-> t, weeks |-> w2t, isNotified |-> TRUE]

\* the document save_week_execution inserts: _id (here the inserting run),
\* createDatetime, the week keys, and the isNotified key (FALSE stands for
\* the key being absent)
execution_doc(id, w2t, isNotified, t) ==
    [id |-> id, createDatetime |-> t, weeks |-> w2t, isNotified |-> isNotified]

save_week_execution(col, id, w2t, isNotified, t) ==
    Append(col, execution_doc(id, w2t, isNotified, t))

\* the pairs of one document
DocPairs(doc) ==
    UNION {{<<doc.weeks[wk][k].ticker, wk>> : k \in 1..Len(doc.weeks[wk])} : wk \in WeekNames}

\* load_previously_reported_pairs without the isNotified condition
load_previously_reported_pairs_any_record(col, t) ==
    LET range == get_today_utc_range(t)
    IN UNION {DocPairs(col[i]) :
                i \in {j \in 1..Len(col) :
                          /\ col[j].createDatetime >= range[1]
                          /\ col[j].createDatetime < range[2]}}

\* the (ticker, weekFlag) pairs of today's notified documents
load_previously_reported_pairs(col, t) ==
    LET range == get_today_utc_range(t)
    IN UNION {DocPairs(col[i]) :
                i \in {j \in 1..Len(col) :
                          /\ col[j].createDatetime >= range[1]
                          /\ col[j].createDatetime < range[2]
                          /\ col[j].isNotified}}

RECURSIVE SelectEntries(_, _, _)
SelectEntries(entries, wk, reported) ==
    IF entries = <<>> THEN <<>>
    ELSE IF <<Head(entries).ticker, wk>> \in reported
         THEN SelectEntries(Tail(entries), wk, reported)
         ELSE <<Head(entries)>> \o SelectEntries(Tail(entries), wk, reported)

\* a filter that drops nothing
filter_nothing(w2t, reported) == w2t

\* filter_already_reported_week_signals, given the loaded set
filter_already_reported_week_signals(w2t, reported) ==
    [wk \in DOMAIN w2t |-> SelectEntries(w2t[wk], wk, reported)]

Row(wk, info) ==
    [ticker |-> info.ticker, weekFlag |-> wk,
     currentPrice |-> info.currentPrice, compareWith |-> info.minimumPrice]

RECURSIVE aggregate_week_matches(_, _)
\* one row per entry, the weeks in the mapping's key order
aggregate_week_matches(keys, w2t) ==
    IF keys = <<>> THEN <<>>
    ELSE [k \in 1..Len(w2t[Head(keys)]) |-> Row(Head(keys), w2t[Head(keys)][k])]
            \o aggregate_week_matches(Tail(keys), w2t)

\* send_email's return value: False without recipients or SMTP host, else
\* whether the SMTP exchange went through
send_email(recipients, smtp_host, delivered) ==
    IF recipients = <<>> THEN FALSE
    ELSE IF smtp_host = "" THEN FALSE
    ELSE delivered

RecipientLists == {<<>>, <<"ops@example.com">>}
SmtpHosts == {"", "smtp.example.com"}

\* the pairs of a list of rows
PairsOf(rs) == {<<rs[k].ticker, rs[k].weekFlag>> : k \in 1..Len(rs)}

(***************************************************************************)
(* runner.py: frames, window metrics and the amount buckets                *)
(*                                                                         *)
(* A price of the daily engine is kept in units of 1/Scale, so that the    *)
(* mean of a day's minute bars is a whole number; an average over a window *)
(* is the fraction num/den, and a comparison against it is taken exactly.  *)
(***************************************************************************)
MaxBars == 1
ShortWindow == 1
LongWindow == 2

NaN == -3
NotCalled == -4

RECURSIVE Factorial(_)
Factorial(n) == IF n <= 1 THEN 1 ELSE n * Factorial(n - 1)

Scale == Factorial(MaxBars)

\* runner.TICKERS
runner_TICKERS == <<"BCE.TO", "BNS.TO">>

\* the rows a daily download can hold
HistoryBars == {b \in [Close : Prices, Low : Prices] : b.Low <= b.Close}

\* HISTORY_DAYS, in rows
MaxHistory == LongWindow

\* a cached history file, by its rows; no rows stands for a missing file
\* and for an empty one
HistoryFiles == SeqsUpTo(HistoryBars, MaxHistory)

\* the 1-minute bars of today; a minute without a trade has no values (NaN)
MinuteBars ==
    {b \in [Close : Prices, Low : Prices] : b.Low <= b.Close}
        \cup {[Close |-> NaN, Low |-> NaN]}

\* one ticker's part of fetch_intraday_batch's dict: absent, or a frame
IntradayFrames ==
    {[present |-> FALSE, frame |-> <<>>]}
        \cup {[present |-> TRUE, frame |-> f] : f \in SeqsUpTo(MinuteBars, MaxBars)}

\* datetime.now(TORONTO_TZ).date().isoformat()
isoformat(d) == "date:" \o ToString(d)

\* the day check leaving the marker file as it found it
is_first_run_today_keeps_marker(marker, today) ==
    IF marker = today THEN <<FALSE, marker>> ELSE <<TRUE, marker>>

\* is_first_run_today: <<return value, marker contents afterwards>>
is_first_run_today(marker, today) ==
    IF marker = "" THEN <<TRUE, today>>
    ELSE IF marker # today THEN <<TRUE, today>>
    ELSE <<FALSE, marker>>

RECURSIVE dropna(_)
dropna(xs) ==
    IF xs = <<>> THEN <<>>
    ELSE IF Head(xs) = NaN THEN dropna(Tail(xs))
         ELSE <<Head(xs)>> \o dropna(Tail(xs))

RECURSIVE SeqSum(_)
SeqSum(xs) == IF xs = <<>> THEN 0 ELSE Head(xs) + SeqSum(Tail(xs))

SeqMin(xs) == CHOOSE m \in {xs[i] : i \in 1..Len(xs)} : \A i \in 1..Len(xs) : m <= xs[i]

\* series[-window_days:]
LastN(xs, n) == SubSeq(xs, Len(xs) - n + 1, Len(xs))

\* "None" of compute_window_metrics
NoMetrics == [defined |-> FALSE, average |-> [num |-> 0, den |-> 1], minimum |-> 0]

\* compute_window_metrics answering a short series with the statistics of
\* the samples there are, and an empty one with zeros
compute_window_metrics_partial(close_series, low_series, window_days) ==
    IF close_series = <<>> \/ low_series = <<>>
    THEN [defined |-> TRUE, average |-> [num |-> 0, den |-> 1], minimum |-> 0]
    ELSE LET nc == IF Len(close_series) < window_days
                   THEN Len(close_series) ELSE window_days
             nl == IF Len(low_series) < window_days
                   THEN Len(low_series) ELSE window_days
         IN [defined |-> TRUE,
             average |-> [num |-> SeqSum(LastN(close_series, nc)), den |-> nc],
             minimum |-> SeqMin(LastN(low_series, nl))]

\* compute_window_metrics taking the statistics over the whole series
compute_window_metrics_whole_series(close_series, low_series, window_days) ==
    IF Len(close_series) < window_days \/ Len(low_series) < window_days
    THEN NoMetrics
    ELSE [defined |-> TRUE,
          average |-> [num |-> SeqSum(close_series) * window_days,
                       den |-> Len(close_series) * window_days],
          minimum |-> SeqMin(low_series)]

compute_window_metrics(close_series, low_series, window_days) ==
    IF Len(close_series) < window_days \/ Len(low_series) < window_days
    THEN NoMetrics
    ELSE [defined |-> TRUE,
          average |-> [num |-> SeqSum(LastN(close_series, window_days)), den |-> window_days],
          minimum |-> SeqMin(LastN(low_series, window_days))]

\* alerts.compute_metrics over candles (date, close, low), oldest first
compute_metrics(candles, window_days) ==
    IF Len(candles) < window_days THEN NoMetrics
    ELSE LET recent == LastN(candles, window_days)
             closes == [i \in 1..Len(recent) |-> recent[i].Close]
             lows == [i \in 1..Len(recent) |-> recent[i].Low]
         IN [defined |-> TRUE,
             average |-> [num |-> SeqSum(closes), den |-> Len(closes)],
             minimum |-> SeqMin(lows)]

\* latest <= num/den
Below_or_equal(latest, frac) == latest * frac.den <= frac.num

\* latest < num/den
Below(latest, frac) == latest * frac.den < frac.num

\* n + pct/10 * (a - n): the line measured from the minimum
gap_line_from_minimum(a, n, tenths) ==
    [num |-> 10 * n * a.den + tenths * (a.num - n * a.den), den |-> 10 * a.den]

\* a - pct/10 * (a - n), for the average a and the minimum n
gap_line(a, n, tenths) ==
    [num |-> 10 * a.num - tenths * (a.num - n * a.den), den |-> 10 * a.den]

\* invest_bucket without its two comparisons against the averages
invest_bucket_without_averages(latest, m30, m90) ==
    LET a30 == m30.average
        n30 == m30.minimum
        a90 == m90.average
        n90 == m90.minimum
        th_30_50 == gap_line(a30, n30, 5)
        th_90_50 == gap_line(a90, n90, 5)
        th_30_80 == gap_line(a30, n30, 8)
        th_90_80 == gap_line(a90, n90, 8)
    IN IF latest < n90 THEN [amount |-> 800, label |-> "Below 90d min"]
       ELSE IF latest < n30 THEN [amount |-> 600, label |-> "Below 30d min"]
       ELSE IF Below(latest, th_90_80) THEN [amount |-> 700, label |-> "Below 80% gap (90d)"]
       ELSE IF Below(latest, th_30_80) THEN [amount |-> 500, label |-> "Below 80% gap (30d)"]
       ELSE IF Below(latest, th_90_50) THEN [amount |-> 500, label |-> "Below 50% gap (90d)"]
       ELSE IF Below(latest, th_30_50) THEN [amount |-> 400, label |-> "Below 50% gap (30d)"]
       ELSE [amount |-> 0, label |-> "No signal"]

\* invest_bucket testing the 30-day minimum before the 90-day minimum
invest_bucket_min30_first(latest, m30, m90) ==
    LET a30 == m30.average
        n30 == m30.minimum
        a90 == m90.average
        n90 == m90.minimum
        th_30_50 == gap_line(a30, n30, 5)
        th_90_50 == gap_line(a90, n90, 5)
        th_30_80 == gap_line(a30, n30, 8)
        th_90_80 == gap_line(a90, n90, 8)
    IN IF latest < n30 THEN [amount |-> 600, label |-> "Below 30d min"]
       ELSE IF latest < n90 THEN [amount |-> 800, label |-> "Below 90d min"]
       ELSE IF Below(latest, th_90_80) THEN [amount |-> 700, label |-> "Below 80% gap (90d)"]
       ELSE IF Below(latest, th_30_80) THEN [amount |-> 500, label |-> "Below 80% gap (30d)"]
       ELSE IF Below(latest, th_90_50) THEN [amount |-> 500, label |-> "Below 50% gap (90d)"]
       ELSE IF Below(latest, th_30_50) THEN [amount |-> 400, label |-> "Below 50% gap (30d)"]
       ELSE IF Below(latest, a90) THEN [amount |-> 200, label |-> "Below 90d avg"]
       ELSE IF Below(latest, a30) THEN [amount |-> 100, label |-> "Below 30d avg"]
       ELSE [amount |-> 0, label |-> "No signal"]

invest_bucket(latest, m30, m90) ==
    LET a30 == m30.average
        n30 == m30.minimum
        a90 == m90.average
        n90 == m90.minimum
        th_30_50 == gap_line(a30, n30, 5)
        th_90_50 == gap_line(a90, n90, 5)
        th_30_80 == gap_line(a30, n30, 8)
        th_90_80 == gap_line(a90, n90, 8)
    IN IF latest < n90 THEN [amount |-> 800, label |-> "Below 90d min"]
       ELSE IF latest < n30 THEN [amount |-> 600, label |-> "Below 30d min"]
       ELSE IF Below(latest, th_90_80) THEN [amount |-> 700, label |-> "Below 80% gap (90d)"]
       ELSE IF Below(latest, th_30_80) THEN [amount |-> 500, label |-> "Below 80% gap (30d)"]
       ELSE IF Below(latest, th_90_50) THEN [amount |-> 500, label |-> "Below 50% gap (90d)"]
       ELSE IF Below(latest, th_30_50) THEN [amount |-> 400, label |-> "Below 50% gap (30d)"]
       ELSE IF Below(latest, a90) THEN [amount |-> 200, label |-> "Below 90d avg"]
       ELSE IF Below(latest, a30) THEN [amount |-> 100, label |-> "Below 30d avg"]
       ELSE [amount |-> 0, label |-> "No signal"]

\* analyze_ticker without the "diff > 0" guards
analyze_ticker_no_gap_guard(current_price, avg30, min30, avg90, min90) ==
    LET add_if_less(field_name, threshold) ==
            IF Below(current_price, threshold) THEN {field_name} ELSE {}
        whole(x) == [num |-> x, den |-> 1]
        diff30_positive == TRUE
        diff90_positive == TRUE
    IN add_if_less("lessThanAvg30", avg30)
        \cup add_if_less("lessThanAvg90", avg90)
        \cup add_if_less("lessThanMin30", whole(min30))
        \cup add_if_less("lessThanMin90", whole(min90))
        \cup (IF diff30_positive
              THEN add_if_less("lessThan80PctDiff30", gap_line(avg30, min30, 8))
                    \cup add_if_less("lessThan50PctDiff30", gap_line(avg30, min30, 5))
              ELSE {})
        \cup (IF diff90_positive
              THEN add_if_less("lessThan80PctDiff90", gap_line(avg90, min90, 8))
                    \cup add_if_less("lessThan50PctDiff90", gap_line(avg90, min90, 5))
              ELSE {})

\* analyze_and_store_execution_state for one ticker with all four stats and
\* a current price: the fields of state_doc the ticker is appended to
analyze_ticker(current_price, avg30, min30, avg90, min90) ==
    LET add_if_less(field_name, threshold) ==
            IF Below(current_price, threshold) THEN {field_name} ELSE {}
        whole(x) == [num |-> x, den |-> 1]
        diff30_positive == avg30.num > min30 * avg30.den
        diff90_positive == avg90.num > min90 * avg90.den
    IN add_if_less("lessThanAvg30", avg30)
        \cup add_if_less("lessThanAvg90", avg90)
        \cup add_if_less("lessThanMin30", whole(min30))
        \cup add_if_less("lessThanMin90", whole(min90))
        \cup (IF diff30_positive
              THEN add_if_less("lessThan80PctDiff30", gap_line(avg30, min30, 8))
                    \cup add_if_less("lessThan50PctDiff30", gap_line(avg30, min30, 5))
              ELSE {})
        \cup (IF diff90_positive
              THEN add_if_less("lessThan80PctDiff90", gap_line(avg90, min90, 8))
                    \cup add_if_less("lessThan50PctDiff90", gap_line(avg90, min90, 5))
              ELSE {})

\* what yf.Ticker(t).fast_info.get("last_price") can give
SnapshotOutcomes == Prices \cup {None, NaN, Raise}

\* float(last_price or 0.0), and 0.0 when the lookup raises
live_snapshot_latest_price(outcome) ==
    IF outcome = Raise THEN 0
    ELSE IF outcome = None THEN 0
    ELSE IF outcome = NaN THEN NaN
    ELSE outcome * Scale

c_close(sub) == dropna([i \in 1..Len(sub.frame) |-> sub.frame[i].Close])
c_low(sub) == dropna([i \in 1..Len(sub.frame) |-> sub.frame[i].Low])

\* "t in intra and not intra[t].empty" and the last non-missing close
intraday_latest(sub) ==
    IF sub.present /\ sub.frame # <<>> /\ c_close(sub) # <<>>
    THEN c_close(sub)[Len(c_close(sub))] * Scale
    ELSE None

\* whether run_once reaches live_snapshot_latest_price for the ticker
calls_snapshot(hist, sub) == hist # <<>> /\ intraday_latest(sub) = None

\* the body of run_once's loop for one ticker: the results list afterwards;
\* snap is the snapshot lookup's outcome, read only when the lookup is made;
\* last_is_today tells whether the last cached row is dated today
run_once_ticker(res, t, hist, sub, snap, last_is_today) ==
    IF hist = <<>> THEN res
    ELSE
    LET close == [i \in 1..Len(hist) |-> hist[i].Close * Scale]
        low == [i \in 1..Len(hist) |-> hist[i].Low * Scale]
        has_sub == sub.present /\ sub.frame # <<>>
        from_intraday == intraday_latest(sub)
        from_snapshot == IF from_intraday = None
                         THEN live_snapshot_latest_price(snap)
                         ELSE from_intraday
        latest == IF from_snapshot = NaN THEN close[Len(close)] ELSE from_snapshot
        have_mean == has_sub /\ c_close(sub) # <<>>
        have_min == has_sub /\ c_low(sub) # <<>>
        close_today_mean == IF have_mean
                            THEN (SeqSum(c_close(sub)) * Scale) \div Len(c_close(sub))
                            ELSE None
        low_today_min == IF have_min THEN SeqMin(c_low(sub)) * Scale ELSE None
        close2 == IF have_mean /\ have_min
                  THEN IF last_is_today
                       THEN [close EXCEPT ![Len(close)] = close_today_mean]
                       ELSE Append(close, close_today_mean)
                  ELSE close
        low2 == IF have_mean /\ have_min
                THEN IF last_is_today
                     THEN [low EXCEPT ![Len(low)] = low_today_min]
                     ELSE Append(low, low_today_min)
                ELSE low
        m30 == compute_window_metrics(close2, low2, ShortWindow)
        m90 == compute_window_metrics(close2, low2, LongWindow)
        bucket == invest_bucket(latest, m30, m90)
    IN IF ~m30.defined \/ ~m90.defined THEN res
       ELSE Append(res, [ticker |-> t, latest |-> latest,
                         avg30 |-> m30.average, min30 |-> m30.minimum,
                         avg90 |-> m90.average, min90 |-> m90.minimum,
                         amount |-> bucket.amount, label |-> bucket.label])

\* nothing handed to the functions that are applied on their own
BucketIdle ==
    /\ arg_latest = 0
    /\ arg_m30 = NoMetrics
    /\ arg_m90 = NoMetrics
    /\ ret_bucket = [done |-> FALSE, amount |-> 0, label |-> ""]
    /\ ret_state_doc = [done |-> FALSE, fields |-> {}]
    /\ arg_current = None
    /\ arg_minimums = [wk \in WeekNames |-> None]
    /\ ret_weeks = [done |-> FALSE, weeks |-> EmptyWeeks]

MetricsIdle ==
    /\ arg_close_series = <<>>
    /\ arg_low_series = <<>>
    /\ arg_window_days = 1
    /\ arg_since = 1
    /\ ret_metrics = [done |-> FALSE, m |-> NoMetrics]
    /\ ret_alerts_metrics = [done |-> FALSE, m |-> NoMetrics]
    /\ ret_results = [done |-> FALSE, results |-> <<>>]
    /\ ret_facet = [done |-> FALSE, minimumClose |-> None]

DedupIdle ==
    /\ arg_col = <<>>
    /\ arg_now = 0
    /\ ret_pairs = [done |-> FALSE, pairs |-> {}]
    /\ arg_w2t = EmptyWeeks
    /\ arg_reported = {}
    /\ ret_filtered = [done |-> FALSE, weeks |-> EmptyWeeks]

PureIdle == BucketIdle /\ MetricsIdle /\ DedupIdle

DailyIdle ==
    /\ cache_date = ""
    /\ history_csv = [t \in AllTickers |-> <<>>]
    /\ intra = [t \in AllTickers |-> [present |-> FALSE, frame |-> <<>>]]
    /\ snapshot = [t \in AllTickers |-> NotCalled]
    /\ results = <<>>
    /\ t_idx = 1
    /\ runner_ok = TRUE
    /\ runner_pc = "idle"
    /\ first_run_log = <<>>

(***************************************************************************)
(* run_base_analysis, one action per stretch between its external calls    *)
(***************************************************************************)
Finished == {"done", "crashed"}

TickerConfigs == {parse_tickers(e, DefaultTickers) : e \in EnvValues}

\* what fetch_minimum_close_byweek_for_ticker and the resolver loop can
\* yield, for every ticker list, minimum map and current prices
ClassifyOutcomes ==
    {[tickers |-> tk,
      res |-> ticker_loop(EmptyWeeks, tk, sorted_reverse(WEEK_FIELDS), mbi, price)] :
        tk \in TickerConfigs,
        mbi \in fetch_minimum_close_byweek_for_ticker,
        price \in [AllTickers -> PriceOutcomes]}

\* get_last_update_local_date
get_last_update_local_date(log) == IF log = None THEN None ELSE LocalDate(log)

\* an uncaught exception ends the run where it stands
Crash(r) ==
    /\ pc' = [pc EXCEPT ![r] = "crashed"]
    /\ UNCHANGED <<week_to_tickers, previously_reported, rows, sent>>

\* "if sent:" taken whatever send_email returned
after_send_always_save(ok) == "save_notified"

\* "if sent:" -> mark and save; otherwise fall through to "return rows"
after_send(ok) == IF ok THEN "save_notified" ELSE "done"

\* ensure_yesterday_data_if_needed up to its decision; runs do not overlap
StartRun(r) ==
    /\ pc[r] = "notstarted"
    /\ \A q \in Runs : q < r => pc[q] \in Finished
    /\ \E find_ok \in BOOLEAN :
        pc' = [pc EXCEPT ![r] =
                  IF ~find_ok THEN "crashed"
                  ELSE IF get_last_update_local_date(daily_log_col) = LocalDate(now)
                       THEN "classify"
                       ELSE "fetch_yesterday"]
    /\ today_local' = [today_local EXCEPT ![r] = LocalDate(now)]
    /\ UNCHANGED <<TICKERS, now, daily_log_col, exec_for_week_col, email_log_col,
                   mailbox, fetch_log, week_to_tickers, previously_reported, rows,
                   sent, price_5m_col,
                   resolverVars, dailyVars, pureVars>>

\* fetch_yesterday_for_all_tickers (it swallows each ticker's failure), then
\* update_daily_log_now
FetchYesterday(r) ==
    /\ pc[r] = "fetch_yesterday"
    /\ fetch_log' = Append(fetch_log, LocalDate(now))
    /\ \E update_ok \in BOOLEAN :
        /\ daily_log_col' = IF update_ok THEN now ELSE daily_log_col
        /\ pc' = [pc EXCEPT ![r] = IF update_ok THEN "classify" ELSE "crashed"]
    /\ UNCHANGED <<today_local, TICKERS, now, exec_for_week_col, email_log_col, mailbox,
                   week_to_tickers, previously_reported, rows, sent, price_5m_col,
                   resolverVars, dailyVars, pureVars>>

\* fetch_minimum_close_byweek_for_ticker and the resolver loop
Classify(r) ==
    /\ pc[r] = "classify"
    /\ \E aggregate_ok \in BOOLEAN :
       \E o \in {x \in ClassifyOutcomes : x.tickers = TICKERS} :
        IF aggregate_ok /\ ~o.res.raised
        THEN /\ week_to_tickers' = [week_to_tickers EXCEPT ![r] = o.res.weeks]
             /\ pc' = [pc EXCEPT ![r] = "filter"]
        ELSE /\ pc' = [pc EXCEPT ![r] = "crashed"]
             /\ UNCHANGED week_to_tickers
    /\ UNCHANGED <<today_local, TICKERS, now, daily_log_col, exec_for_week_col, email_log_col,
                   mailbox, fetch_log, previously_reported, rows, sent, price_5m_col,
                   resolverVars, dailyVars, pureVars>>

\* filter_already_reported_week_signals and aggregate_week_matches
Filter(r) ==
    /\ pc[r] = "filter"
    /\ \E find_ok \in BOOLEAN :
        IF find_ok
        THEN LET reported == load_previously_reported_pairs(exec_for_week_col, now)
                 filtered == filter_already_reported_week_signals(week_to_tickers[r], reported)
                 new_rows == aggregate_week_matches(sorted_reverse(WEEK_FIELDS), filtered)
             IN /\ previously_reported' = [previously_reported EXCEPT ![r] = reported]
                /\ rows' = [rows EXCEPT ![r] = new_rows]
                /\ pc' = [pc EXCEPT ![r] = IF new_rows = <<>> THEN "save_plain" ELSE "send"]
                /\ UNCHANGED <<week_to_tickers, sent>>
        ELSE Crash(r)
    /\ UNCHANGED <<today_local, TICKERS, now, daily_log_col, exec_for_week_col, email_log_col,
                   mailbox, fetch_log, price_5m_col,
                   resolverVars, dailyVars, pureVars>>

\* "if not rows": save_week_execution(week_to_tickers); return
SaveUnnotified(r) ==
    /\ pc[r] = "save_plain"
    /\ \E insert_ok \in BOOLEAN :
        IF insert_ok
        THEN /\ exec_for_week_col' =
                    save_week_execution(exec_for_week_col, r, week_to_tickers[r], FALSE, now)
             /\ pc' = [pc EXCEPT ![r] = "done"]
             /\ UNCHANGED <<week_to_tickers, previously_reported, rows, sent>>
        ELSE /\ Crash(r)
             /\ UNCHANGED exec_for_week_col
    /\ UNCHANGED <<today_local, TICKERS, now, daily_log_col, email_log_col, mailbox, fetch_log,
                   price_5m_col,
                   resolverVars, dailyVars, pureVars>>

\* get_notify_emails and send_email; when "if sent:" is false, return rows
Send(r) ==
    /\ pc[r] = "send"
    /\ \E find_ok \in BOOLEAN :
       \E recipients \in RecipientLists :
       \E smtp_host \in SmtpHosts :
       \E delivered \in BOOLEAN :
        IF find_ok
        THEN LET ok == send_email(recipients, smtp_host, delivered)
             IN /\ sent' = [sent EXCEPT ![r] = ok]
                /\ mailbox' = IF ok
                              THEN Append(mailbox, [at |-> now, run |-> r, rows |-> rows[r]])
                              ELSE mailbox
                /\ pc' = [pc EXCEPT ![r] = after_send(ok)]
                /\ UNCHANGED <<week_to_tickers, previously_reported, rows>>
        ELSE /\ Crash(r)
             /\ UNCHANGED mailbox
    /\ UNCHANGED <<today_local, TICKERS, now, daily_log_col, exec_for_week_col, email_log_col,
                   fetch_log, price_5m_col,
                   resolverVars, dailyVars, pureVars>>

\* "if sent:": isNotified = True, save_week_execution, log_email_send
SaveNotified(r) ==
    /\ pc[r] = "save_notified"
    /\ \E insert_ok \in BOOLEAN :
       \E log_ok \in BOOLEAN :
        IF insert_ok
        THEN /\ exec_for_week_col' =
                    save_week_execution(exec_for_week_col, r, week_to_tickers[r], TRUE, now)
             /\ IF log_ok
                THEN /\ email_log_col' =
                            Append(email_log_col,
                                   [createDatetime |-> now, rowCount |-> Len(rows[r]),
                                    executionId |-> r])
                     /\ pc' = [pc EXCEPT ![r] = "done"]
                     /\ UNCHANGED <<week_to_tickers, previously_reported, rows, sent>>
                ELSE /\ Crash(r)
                     /\ UNCHANGED email_log_col
        ELSE /\ Crash(r)
             /\ UNCHANGED <<exec_for_week_col, email_log_col>>
    /\ UNCHANGED <<today_local, TICKERS, now, daily_log_col, mailbox, fetch_log, price_5m_col,
                   resolverVars, dailyVars, pureVars>>

\* the clock advances
Tick ==
    /\ now < MaxTime
    /\ now' = now + 1
    /\ UNCHANGED <<today_local, TICKERS, daily_log_col, exec_for_week_col, email_log_col, mailbox,
                   fetch_log, pc, week_to_tickers, previously_reported, rows, sent,
                   price_5m_col,
                   resolverVars, dailyVars, pureVars>>

ResolverIdle ==
    /\ min_by_interval = [wk \in WeekNames |-> [t \in AllTickers |-> None]]
    /\ arg_bars = NoBars
    /\ current = [t \in AllTickers |-> None]
    /\ resolved = [done |-> FALSE, raised |-> FALSE, weeks |-> EmptyWeeks]

WeeklyIdle ==
    /\ now = 0
    /\ daily_log_col = None
    /\ exec_for_week_col = <<>>
    /\ email_log_col = <<>>
    /\ mailbox = <<>>
    /\ fetch_log = <<>>
    /\ pc = [r \in Runs |-> "notstarted"]
    /\ today_local = [r \in Runs |-> 0]
    /\ week_to_tickers = [r \in Runs |-> EmptyWeeks]
    /\ previously_reported = [r \in Runs |-> {}]
    /\ rows = [r \in Runs |-> <<>>]
    /\ sent = [r \in Runs |-> FALSE]
    /\ price_5m_col = {}

\* TICKERS = parse_tickers(os.getenv("TICKERS"), default=[...])
Init ==
    /\ TICKERS \in TickerConfigs
    /\ WeeklyIdle
    /\ ResolverIdle
    /\ DailyIdle
    /\ PureIdle

Next ==
    \/ \E r \in Runs : StartRun(r)
    \/ \E r \in Runs : FetchYesterday(r)
    \/ \E r \in Runs : Classify(r)
    \/ \E r \in Runs : Filter(r)
    \/ \E r \in Runs : SaveUnnotified(r)
    \/ \E r \in Runs : Send(r)
    \/ \E r \in Runs : SaveNotified(r)
    \/ Tick

Spec == Init /\ [][Next]_vars

(***************************************************************************)
(* Overlapping runs of run_base_analysis on one local day, with the price  *)
(* store kept: a ticker has minimums only when the store holds bars of it  *)
(***************************************************************************)
\* the maps the pipeline returns over a store without the minimum of any
\* ticker that has a bar, whatever the store holds
fetch_minimum_close_ignoring_store(stored) == fetch_minimum_close_byweek_for_ticker

\* the maps the pipeline returns over a store that holds bars of the tickers
\* in stored only: $group yields no row for a ticker without a document
fetch_minimum_close_over(stored) ==
    {m \in fetch_minimum_close_byweek_for_ticker :
        \A t \in AllTickers \ stored : \A wk \in WeekNames : m[wk][t] = None}

\* the resolver's results over each store
ClassifyOutcomesOver ==
    UNION {{[tickers |-> tk, stored |-> stored,
             res |-> ticker_loop(EmptyWeeks, tk, sorted_reverse(WEEK_FIELDS), mbi, price)] :
                tk \in TickerConfigs,
                mbi \in fetch_minimum_close_over(stored),
                price \in [AllTickers -> PriceOutcomes]} :
           stored \in SUBSET AllTickers}

InitOverlap ==
    /\ TICKERS \in TickerConfigs
    /\ WeeklyIdle
    /\ ResolverIdle
    /\ DailyIdle
    /\ PureIdle

\* ensure_yesterday_data_if_needed up to its decision, whatever the other
\* runs are doing
StartRunOverlap(r) ==
    /\ pc[r] = "notstarted"
    /\ \E find_ok \in BOOLEAN :
        pc' = [pc EXCEPT ![r] =
                  IF ~find_ok THEN "crashed"
                  ELSE IF get_last_update_local_date(daily_log_col) = LocalDate(now)
                       THEN "classify"
                       ELSE "fetch_yesterday"]
    /\ today_local' = [today_local EXCEPT ![r] = LocalDate(now)]
    /\ UNCHANGED <<TICKERS, now, daily_log_col, exec_for_week_col, email_log_col,
                   mailbox, fetch_log, week_to_tickers, previously_reported, rows,
                   sent, price_5m_col, resolverVars, dailyVars, pureVars>>

\* fetch_yesterday_for_all_tickers: each ticker's download and upsert stores
\* its bars or fails and is logged; then update_daily_log_now
FetchYesterdayOverlap(r) ==
    /\ pc[r] = "fetch_yesterday"
    /\ fetch_log' = Append(fetch_log, LocalDate(now))
    /\ \E upserted \in SUBSET {TICKERS[i] : i \in 1..Len(TICKERS)} :
        price_5m_col' = price_5m_col \cup upserted
    /\ \E update_ok \in BOOLEAN :
        /\ daily_log_col' = IF update_ok THEN now ELSE daily_log_col
        /\ pc' = [pc EXCEPT ![r] = IF update_ok THEN "classify" ELSE "crashed"]
    /\ UNCHANGED <<today_local, TICKERS, now, exec_for_week_col, email_log_col, mailbox,
                   week_to_tickers, previously_reported, rows, sent,
                   resolverVars, dailyVars, pureVars>>

\* fetch_minimum_close_byweek_for_ticker over the store and the resolver loop
ClassifyOverlap(r) ==
    /\ pc[r] = "classify"
    /\ \E aggregate_ok \in BOOLEAN :
       \E o \in {x \in ClassifyOutcomesOver :
                    x.tickers = TICKERS /\ x.stored = price_5m_col} :
        IF aggregate_ok /\ ~o.res.raised
        THEN /\ week_to_tickers' = [week_to_tickers EXCEPT ![r] = o.res.weeks]
             /\ pc' = [pc EXCEPT ![r] = "filter"]
        ELSE /\ pc' = [pc EXCEPT ![r] = "crashed"]
             /\ UNCHANGED week_to_tickers
    /\ UNCHANGED <<today_local, TICKERS, now, daily_log_col, exec_for_week_col, email_log_col,
                   mailbox, fetch_log, previously_reported, rows, sent, price_5m_col,
                   resolverVars, dailyVars, pureVars>>

NextOverlap ==
    \/ \E r \in Runs : StartRunOverlap(r)
    \/ \E r \in Runs : FetchYesterdayOverlap(r)
    \/ \E r \in Runs : ClassifyOverlap(r)
    \/ \E r \in Runs : Filter(r)
    \/ \E r \in Runs : SaveUnnotified(r)
    \/ \E r \in Runs : Send(r)
    \/ \E r \in Runs : SaveNotified(r)

SpecOverlap == InitOverlap /\ [][NextOverlap]_vars

(***************************************************************************)
(* Sequential runs over the price store: the runs of Spec with the fetch   *)
(* and the aggregation of SpecOverlap                                      *)
(***************************************************************************)
NextStored ==
    \/ \E r \in Runs : StartRun(r)
    \/ \E r \in Runs : FetchYesterdayOverlap(r)
    \/ \E r \in Runs : ClassifyOverlap(r)
    \/ \E r \in Runs : Filter(r)
    \/ \E r \in Runs : SaveUnnotified(r)
    \/ \E r \in Runs : Send(r)
    \/ \E r \in Runs : SaveNotified(r)
    \/ Tick

SpecStored == InitOverlap /\ [][NextStored]_vars

(***************************************************************************)
(* The resolver loop on its whole input domain                             *)
(***************************************************************************)
InitResolver ==
    /\ TICKERS \in TickerConfigs
    /\ WeeklyIdle
    /\ min_by_interval \in AllMinMaps
    /\ arg_bars = NoBars
    /\ current = [t \in AllTickers |-> None]
    /\ resolved = [done |-> FALSE, raised |-> FALSE, weeks |-> EmptyWeeks]
    /\ DailyIdle
    /\ PureIdle

ResolverRun ==
    /\ ~resolved.done
    /\ \E price \in [AllTickers -> PriceOutcomes] :
        LET res == ticker_loop(EmptyWeeks, TICKERS, sorted_reverse(WEEK_FIELDS),
                               min_by_interval, price)
        IN /\ current' = price
           /\ resolved' = [done |-> TRUE, raised |-> res.raised, weeks |-> res.weeks]
    /\ UNCHANGED <<TICKERS, weeklyVars, min_by_interval, arg_bars, dailyVars, pureVars>>

NextResolver == ResolverRun

SpecResolver == InitResolver /\ [][NextResolver]_vars

(***************************************************************************)
(* run_once                                                                *)
(***************************************************************************)
\* the files a run can find: a marker of today, of an earlier day or none,
\* and any cached history
InitDaily ==
    /\ TICKERS = DefaultTickers
    /\ WeeklyIdle
    /\ ResolverIdle
    /\ PureIdle
    /\ cache_date \in {"", isoformat(LocalDate(now) - 1), isoformat(LocalDate(now))}
    /\ history_csv \in [AllTickers -> HistoryFiles]
    /\ intra = [t \in AllTickers |-> [present |-> FALSE, frame |-> <<>>]]
    /\ snapshot = [t \in AllTickers |-> NotCalled]
    /\ results = <<>>
    /\ t_idx = 1
    /\ runner_ok = TRUE
    /\ runner_pc = "idle"
    /\ first_run_log = <<>>

\* what one ticker's yf.download in cache_history_if_needed leaves in its
\* file: the file as it was (empty answer or exception), or the new frame
downloads(old) == {old} \cup (HistoryFiles \ {<<>>})

\* cache_history_if_needed(TICKERS, HISTORY_DAYS), then
\* fetch_intraday_batch(TICKERS); a failed batch is the dict without keys
DailyBegin ==
    /\ runner_pc = "idle"
    /\ Len(first_run_log) < MaxCalls
    /\ LET first == is_first_run_today(cache_date, isoformat(LocalDate(now)))
       IN /\ cache_date' = first[2]
          /\ first_run_log' = Append(first_run_log,
                                     [day |-> LocalDate(now), refresh |-> first[1]])
          /\ IF first[1]
             THEN \E new \in [AllTickers -> HistoryFiles] :
                    /\ \A t \in AllTickers : new[t] \in downloads(history_csv[t])
                    /\ history_csv' = new
             ELSE UNCHANGED history_csv
    /\ intra' \in [AllTickers -> IntradayFrames]
    /\ results' = <<>>
    /\ t_idx' = 1
    /\ runner_pc' = "loop"
    /\ UNCHANGED <<TICKERS, weeklyVars, resolverVars, pureVars, snapshot, runner_ok>>

\* one iteration of "for t in TICKERS"; an exception (load_history cannot
\* parse the file) leaves the loop for the handler of run_once
DailyTicker ==
    /\ runner_pc = "loop"
    /\ t_idx <= Len(runner_TICKERS)
    /\ LET t == runner_TICKERS[t_idx]
       IN \E read_ok \in BOOLEAN :
          \E snap \in (IF calls_snapshot(history_csv[t], intra[t])
                       THEN SnapshotOutcomes ELSE {NotCalled}) :
          \E last_is_today \in BOOLEAN :
            IF read_ok
            THEN /\ results' = run_once_ticker(results, t, history_csv[t], intra[t], snap,
                                               last_is_today)
                 /\ snapshot' = [snapshot EXCEPT ![t] = snap]
                 /\ t_idx' = t_idx + 1
                 /\ UNCHANGED <<runner_ok, runner_pc>>
            ELSE /\ snap = NotCalled
                 /\ runner_ok' = FALSE
                 /\ runner_pc' = "finished"
                 /\ UNCHANGED <<results, snapshot, t_idx>>
    /\ UNCHANGED <<TICKERS, weeklyVars, resolverVars, pureVars, cache_date, history_csv, intra,
                   first_run_log>>

\* build_html_table(results); send_email(html); the finally block
DailyFinish ==
    /\ runner_pc = "loop"
    /\ t_idx > Len(runner_TICKERS)
    /\ \E EMAIL_ENABLED \in BOOLEAN :
       \E smtp_ok \in BOOLEAN :
        runner_ok' = (~EMAIL_ENABLED \/ smtp_ok)
    /\ runner_pc' = "finished"
    /\ UNCHANGED <<TICKERS, weeklyVars, resolverVars, pureVars, cache_date, history_csv, intra,
                   snapshot, results, t_idx, first_run_log>>

NextDaily ==
    \/ DailyBegin
    \/ DailyTicker
    \/ DailyFinish

SpecDaily == InitDaily /\ [][NextDaily]_vars

(***************************************************************************)
(* Successive invocations of runner.py over the days, from an empty data   *)
(* directory                                                               *)
(***************************************************************************)
InitDailyRuns ==
    /\ TICKERS = DefaultTickers
    /\ WeeklyIdle
    /\ ResolverIdle
    /\ PureIdle
    /\ DailyIdle

\* the next invocation of "python runner.py": a new process, the files of
\* the data directory are what the last one left
DailyRestart ==
    /\ runner_pc = "finished"
    /\ intra' = [t \in AllTickers |-> [present |-> FALSE, frame |-> <<>>]]
    /\ snapshot' = [t \in AllTickers |-> NotCalled]
    /\ results' = <<>>
    /\ t_idx' = 1
    /\ runner_ok' = TRUE
    /\ runner_pc' = "idle"
    /\ UNCHANGED <<TICKERS, weeklyVars, resolverVars, pureVars, cache_date, history_csv,
                   first_run_log>>

NextDailyRuns ==
    \/ DailyBegin
    \/ DailyTicker
    \/ DailyFinish
    \/ DailyRestart
    \/ Tick

SpecDailyRuns == InitDailyRuns /\ [][NextDailyRuns]_vars

(***************************************************************************)
(* invest_bucket, the comparisons of analyze_and_store_execution_state and *)
(* the week scan of one ticker, on their whole input domain                *)
(***************************************************************************)
MaxLevel == 5
MaxSeries == 3
MaxDocs == 2
MaxEntries == 2

\* the prices, averages and minimums handed to the classifiers
Levels == 0..MaxLevel

LevelMetrics ==
    {[defined |-> TRUE, average |-> [num |-> a, den |-> 1], minimum |-> n] :
        a \in Levels, n \in Levels}

\* the minimum map of a single ticker
single_ticker_map(ticker, minimums) ==
    [wk \in WeekNames |-> [t \in AllTickers |-> IF t = ticker THEN minimums[wk] ELSE None]]

InitBucket ==
    /\ TICKERS = DefaultTickers
    /\ WeeklyIdle
    /\ ResolverIdle
    /\ DailyIdle
    /\ MetricsIdle
    /\ DedupIdle
    /\ \/ /\ arg_latest \in Levels
          /\ arg_m30 \in LevelMetrics
          /\ arg_m90 \in LevelMetrics
          /\ arg_current = None
          /\ arg_minimums = [wk \in WeekNames |-> None]
       \/ /\ arg_latest = 0
          /\ arg_m30 = NoMetrics
          /\ arg_m90 = NoMetrics
          /\ arg_current \in Prices
          /\ arg_minimums \in [WeekNames -> Prices \cup {None}]
    /\ ret_bucket = [done |-> FALSE, amount |-> 0, label |-> ""]
    /\ ret_state_doc = [done |-> FALSE, fields |-> {}]
    /\ ret_weeks = [done |-> FALSE, weeks |-> EmptyWeeks]

\* amount, label = invest_bucket(latest, m30, m90)
ApplyInvestBucket ==
    /\ arg_m30.defined
    /\ arg_m90.defined
    /\ ~ret_bucket.done
    /\ LET bucket == invest_bucket(arg_latest, arg_m30, arg_m90)
       IN ret_bucket' = [done |-> TRUE, amount |-> bucket.amount, label |-> bucket.label]
    /\ UNCHANGED <<TICKERS, weeklyVars, resolverVars, dailyVars, metricsVars, dedupVars, arg_latest, arg_m30,
                   arg_m90, ret_state_doc, arg_current, arg_minimums, ret_weeks>>

\* the comparisons of analyze_and_store_execution_state for one ticker
ApplyAnalyze ==
    /\ arg_m30.defined
    /\ arg_m90.defined
    /\ ~ret_state_doc.done
    /\ ret_state_doc' =
            [done |-> TRUE,
             fields |-> analyze_ticker(arg_latest, arg_m30.average, arg_m30.minimum,
                                       arg_m90.average, arg_m90.minimum)]
    /\ UNCHANGED <<TICKERS, weeklyVars, resolverVars, dailyVars, metricsVars, dedupVars, arg_latest, arg_m30,
                   arg_m90, ret_bucket, arg_current, arg_minimums, ret_weeks>>

\* the scan "for wk in ordered_week_keys" of run_base_analysis for one ticker
ApplyScanWeeks ==
    /\ arg_current # None
    /\ ~ret_weeks.done
    /\ ret_weeks' =
            [done |-> TRUE,
             weeks |-> scan_weeks(EmptyWeeks, sorted_reverse(WEEK_FIELDS),
                                  single_ticker_map("BCE.TO", arg_minimums),
                                  "BCE.TO", arg_current)]
    /\ UNCHANGED <<TICKERS, weeklyVars, resolverVars, dailyVars, metricsVars, dedupVars, arg_latest, arg_m30,
                   arg_m90, ret_bucket, ret_state_doc, arg_current, arg_minimums>>

NextBucket ==
    \/ ApplyInvestBucket
    \/ ApplyAnalyze
    \/ ApplyScanWeeks

SpecBucket == InitBucket /\ [][NextBucket]_vars

(***************************************************************************)
(* The window statistics: runner.compute_window_metrics, its use by        *)
(* run_once, alerts.compute_metrics and a facet of                         *)
(* fetch_minimum_close_byweek_for_ticker, on drawn series                  *)
(***************************************************************************)
Windows == 1..MaxSeries

Series == SeqsUpTo(Prices, MaxSeries)

\* the rows (Close, Low) of two columns of equal length
zip(close_series, low_series) ==
    [i \in 1..Len(close_series) |-> [Close |-> close_series[i], Low |-> low_series[i]]]

\* the Price5m documents of one ticker, in the order of ts
price_5m_docs(close_series, low_series) ==
    [i \in 1..Len(close_series) |->
        [ts |-> i, Close |-> close_series[i], Low |-> low_series[i]]]

\* a facet whose window is the one week that begins at start
facet_minimumClose_that_week(docs, start) ==
    LET matched == {i \in 1..Len(docs) : docs[i].ts = start}
    IN IF matched = {} THEN None
       ELSE CHOOSE m \in {docs[i].Close : i \in matched} :
                \A i \in matched : m <= docs[i].Close

\* one facet for one ticker: $match ts >= start, $group with $min of $Close;
\* no row, hence no entry in the map, when no document matches
facet_minimumClose(docs, start) ==
    LET matched == {i \in 1..Len(docs) : docs[i].ts >= start}
    IN IF matched = {} THEN None
       ELSE CHOOSE m \in {docs[i].Close : i \in matched} :
                \A i \in matched : m <= docs[i].Close

InitMetrics ==
    /\ TICKERS = DefaultTickers
    /\ WeeklyIdle
    /\ ResolverIdle
    /\ DailyIdle
    /\ BucketIdle
    /\ DedupIdle
    /\ arg_close_series \in Series
    /\ arg_low_series \in Series
    /\ arg_window_days \in Windows
    /\ arg_since \in Windows
    /\ ret_metrics = [done |-> FALSE, m |-> NoMetrics]
    /\ ret_alerts_metrics = [done |-> FALSE, m |-> NoMetrics]
    /\ ret_results = [done |-> FALSE, results |-> <<>>]
    /\ ret_facet = [done |-> FALSE, minimumClose |-> None]

\* compute_window_metrics(close, low, window_days)
ApplyComputeWindowMetrics ==
    /\ ~ret_metrics.done
    /\ ret_metrics' =
            [done |-> TRUE,
             m |-> compute_window_metrics(arg_close_series, arg_low_series,
                                          arg_window_days)]
    /\ UNCHANGED <<TICKERS, weeklyVars, resolverVars, dailyVars, bucketVars, dedupVars,
                   arg_close_series, arg_low_series, arg_window_days, arg_since,
                   ret_alerts_metrics, ret_results, ret_facet>>

\* compute_metrics(candles, window_days)
ApplyComputeMetrics ==
    /\ Len(arg_close_series) = Len(arg_low_series)
    /\ ~ret_alerts_metrics.done
    /\ ret_alerts_metrics' =
            [done |-> TRUE,
             m |-> compute_metrics(zip(arg_close_series, arg_low_series),
                                   arg_window_days)]
    /\ UNCHANGED <<TICKERS, weeklyVars, resolverVars, dailyVars, bucketVars, dedupVars,
                   arg_close_series, arg_low_series, arg_window_days, arg_since,
                   ret_metrics, ret_results, ret_facet>>

\* one iteration of run_once's loop on a cached history with these columns,
\* no intraday frame for the ticker and any outcome of the snapshot lookup
ApplyRunOnce ==
    /\ Len(arg_close_series) = Len(arg_low_series)
    /\ ~ret_results.done
    /\ \E snap \in SnapshotOutcomes :
            ret_results' =
                [done |-> TRUE,
                 results |-> run_once_ticker(<<>>, "BCE.TO",
                                             zip(arg_close_series, arg_low_series),
                                             [present |-> FALSE, frame |-> <<>>],
                                             snap, FALSE)]
    /\ UNCHANGED <<TICKERS, weeklyVars, resolverVars, dailyVars, bucketVars, dedupVars,
                   arg_close_series, arg_low_series, arg_window_days, arg_since,
                   ret_metrics, ret_alerts_metrics, ret_facet>>

\* one facet of the aggregation over the ticker's documents
ApplyFacet ==
    /\ Len(arg_close_series) = Len(arg_low_series)
    /\ ~ret_facet.done
    /\ ret_facet' =
            [done |-> TRUE,
             minimumClose |-> facet_minimumClose(
                                  price_5m_docs(arg_close_series, arg_low_series),
                                  arg_since)]
    /\ UNCHANGED <<TICKERS, weeklyVars, resolverVars, dailyVars, bucketVars, dedupVars,
                   arg_close_series, arg_low_series, arg_window_days, arg_since,
                   ret_metrics, ret_alerts_metrics, ret_results>>

NextMetrics ==
    \/ ApplyComputeWindowMetrics
    \/ ApplyComputeMetrics
    \/ ApplyRunOnce
    \/ ApplyFacet

SpecMetrics == InitMetrics /\ [][NextMetrics]_vars

(***************************************************************************)
(* The aggregation of fetch_minimum_close_byweek_for_ticker on drawn bars, *)
(* followed by the resolver loop                                           *)
(***************************************************************************)
\* week_ranges_utc[w]: the Monday w weeks before this week's Monday
week_ranges_utc(w) == MondaySlot - w

oldest_week == WEEK_SPANS[Len(WEEK_SPANS)]

\* the start of the $match of each facet
facet_start(wk) ==
    IF wk = "sinceThisWeek" THEN MondaySlot
    ELSE week_ranges_utc(CHOOSE w \in 1..MaxWeekSpan : SincePast(w) = wk)

RECURSIVE bar_docs(_, _)
\* the documents of one ticker from week s on, in the order of ts
bar_docs(b, s) ==
    IF s > MondaySlot THEN <<>>
    ELSE (IF b[s] = None THEN <<>> ELSE <<[ts |-> s, Close |-> b[s]]>>)
            \o bar_docs(b, s + 1)

\* the first stage of the pipeline: $match ts >= start of the oldest week
base_match(docs) ==
    SelectSeq(docs, LAMBDA d : d.ts >= week_ranges_utc(oldest_week))

\* the aggregation: one facet per window, grouped by ticker
aggregate_week_intervals(bars) ==
    [wk \in WeekNames |->
        [t \in AllTickers |->
            facet_minimumClose(base_match(bar_docs(bars[t], 0)), facet_start(wk))]]

AllBars == [AllTickers -> [Slots -> Prices \cup {None}]]

InitWeeks ==
    /\ TICKERS = DefaultTickers
    /\ WeeklyIdle
    /\ min_by_interval = [wk \in WeekNames |-> [t \in AllTickers |-> None]]
    /\ arg_bars \in AllBars
    /\ current = [t \in AllTickers |-> None]
    /\ resolved = [done |-> FALSE, raised |-> FALSE, weeks |-> EmptyWeeks]
    /\ DailyIdle
    /\ PureIdle

\* steps 2 and 3 of run_base_analysis: the aggregation, then the loop
ApplyWeeks ==
    /\ ~resolved.done
    /\ \E price \in [AllTickers -> PriceOutcomes] :
        LET mbi == aggregate_week_intervals(arg_bars)
            res == ticker_loop(EmptyWeeks, TICKERS, sorted_reverse(WEEK_FIELDS), mbi, price)
        IN /\ min_by_interval' = mbi
           /\ current' = price
           /\ resolved' = [done |-> TRUE, raised |-> res.raised, weeks |-> res.weeks]
    /\ UNCHANGED <<TICKERS, weeklyVars, arg_bars, dailyVars, pureVars>>

NextWeeks == ApplyWeeks

SpecWeeks == InitWeeks /\ [][NextWeeks]_vars

(***************************************************************************)
(* The dedup state: load_previously_reported_pairs on drawn collections    *)
(* and filter_already_reported_week_signals on drawn mappings              *)
(***************************************************************************)
\* the entries the resolver builds, by ticker
Entries == {Entry(t, 1, 2) : t \in AllTickers}

\* the week fields of a stored document
DocWeeks == [WeekNames -> SeqsUpTo(Entries, 1)]

\* the documents of ExecutionComparedToWeekCanada
ExecutionDocs ==
    {execution_doc(0, w2t, n, t) : w2t \in DocWeeks, n \in BOOLEAN, t \in Times}

AllPairs == AllTickers \X WeekNames

InitDedup ==
    /\ TICKERS = DefaultTickers
    /\ WeeklyIdle
    /\ ResolverIdle
    /\ DailyIdle
    /\ BucketIdle
    /\ MetricsIdle
    /\ \/ /\ arg_col \in SeqsUpTo(ExecutionDocs, MaxDocs)
          /\ arg_now \in Times
          /\ arg_w2t = EmptyWeeks
          /\ arg_reported = {}
       \/ /\ arg_col = <<>>
          /\ arg_now = 0
          /\ arg_w2t \in [WeekNames -> SeqsUpTo(Entries, MaxEntries)]
          /\ arg_reported \in SUBSET AllPairs
    /\ ret_pairs = [done |-> FALSE, pairs |-> {}]
    /\ ret_filtered = [done |-> FALSE, weeks |-> EmptyWeeks]

\* previously_reported = load_previously_reported_pairs()
ApplyLoad ==
    /\ ~ret_pairs.done
    /\ ret_pairs' = [done |-> TRUE,
                     pairs |-> load_previously_reported_pairs(arg_col, arg_now)]
    /\ UNCHANGED <<TICKERS, weeklyVars, resolverVars, dailyVars, bucketVars, metricsVars,
                   arg_col, arg_now, arg_w2t, arg_reported, ret_filtered>>

\* the loop of filter_already_reported_week_signals over the loaded set
ApplyFilter ==
    /\ ~ret_filtered.done
    /\ ret_filtered' =
            [done |-> TRUE,
             weeks |-> filter_already_reported_week_signals(arg_w2t, arg_reported)]
    /\ UNCHANGED <<TICKERS, weeklyVars, resolverVars, dailyVars, bucketVars, metricsVars,
                   arg_col, arg_now, ret_pairs, arg_w2t, arg_reported>>

NextDedup ==
    \/ ApplyLoad
    \/ ApplyFilter

SpecDedup == InitDedup /\ [][NextDedup]_vars

(***************************************************************************)
(* Properties of the weekly engine                                         *)
(***************************************************************************)
\* a run that has loaded the reported set and computed its rows
PastFilter == {"save_plain", "send", "save_notified", "done"}

\* the documents a run inserted
DocsOf(r) == {i \in 1..Len(exec_for_week_col) : exec_for_week_col[i].id = r}

\* the pairs of a pre-filter result
WeekPairs(w2t) ==
    UNION {{<<w2t[wk][k].ticker, wk>> : k \in 1..Len(w2t[wk])} : wk \in WeekNames}

\* C1: across non-overlapping runs, the notifications sent within one local
\* day never hold the same (ticker, weekFlag) pair twice: no two
\* notifications of a day share a pair, and none lists a pair twice.
C1_AtMostOneNotificationPerPairAndDay ==
    /\ \A i, j \in 1..Len(mailbox) :
        (i < j /\ LocalDate(mailbox[i].at) = LocalDate(mailbox[j].at))
            => PairsOf(mailbox[i].rows) \cap PairsOf(mailbox[j].rows) = {}
    /\ \A i \in 1..Len(mailbox) :
        Cardinality(PairsOf(mailbox[i].rows)) = Len(mailbox[i].rows)

\* C2: every run that returns has persisted exactly one execution document,
\* holding its pre-filter week_to_tickers; also when send_email returned
\* False or no row was left after the filter.
C2_EveryRunPersistsOneRecord ==
    \A r \in Runs :
        pc[r] = "done"
            => /\ Cardinality(DocsOf(r)) = 1
               /\ \A i \in DocsOf(r) : exec_for_week_col[i].weeks = week_to_tickers[r]

\* C3: every document marked isNotified was inserted by a run whose
\* send_email returned True on a non-empty list of rows.
C3_NotifiedOnlyAfterSuccessfulSend ==
    \A i \in 1..Len(exec_for_week_col) :
        exec_for_week_col[i].isNotified
            => /\ sent[exec_for_week_col[i].id]
               /\ rows[exec_for_week_col[i].id] # <<>>
               /\ \E k \in 1..Len(mailbox) :
                    /\ mailbox[k].run = exec_for_week_col[i].id
                    /\ mailbox[k].rows = rows[exec_for_week_col[i].id]

\* a notified document and a document that is not notified are both stored
C3_Witness ==
    /\ \E i \in 1..Len(exec_for_week_col) : exec_for_week_col[i].isNotified
    /\ \E i \in 1..Len(exec_for_week_col) : ~exec_for_week_col[i].isNotified

\* the run had rows to send and send_email returned False
DispatchFailed(r) == pc[r] = "done" /\ rows[r] # <<>> /\ ~sent[r]

\* C4: a run whose dispatch failed inserts no document, so it adds no pair to
\* the set load_previously_reported_pairs returns; each pair it wanted to
\* send that the next run computes again passes that run's filter and is in
\* its rows.
C4_FailedDispatchMarksNothing ==
    \A r \in Runs :
        DispatchFailed(r)
            => /\ DocsOf(r) = {}
               /\ (r + 1 \in Runs /\ pc[r + 1] \in PastFilter)
                    => (PairsOf(rows[r]) \cap WeekPairs(week_to_tickers[r + 1]))
                            \subseteq PairsOf(rows[r + 1])

\* a dispatch failed, and the next run, on the same local day, sent a
\* notification with one of the pairs the failed run wanted to send
C4_Witness ==
    \E r \in Runs :
        /\ DispatchFailed(r)
        /\ r + 1 \in Runs
        /\ \E k \in 1..Len(mailbox) :
            /\ mailbox[k].run = r + 1
            /\ LocalDate(mailbox[k].at) = today_local[r]
            /\ PairsOf(mailbox[k].rows) \cap PairsOf(rows[r]) # {}

\* C5: when a run's notification succeeded and a later run of the same local
\* day computes the same pre-filter result (the same minimums and prices give
\* the same result), the later run's rows are empty and it sends nothing.
C5_SecondRunSendsNothing ==
    \A r1, r2 \in Runs :
        ( /\ r1 < r2
          /\ sent[r1]
          /\ pc[r2] \in PastFilter
          /\ week_to_tickers[r2] = week_to_tickers[r1]
          /\ today_local[r1] = LocalDate(now) )
            => rows[r2] = <<>> /\ ~sent[r2]

\* C6: once a notification is delivered and its run has ended, every pair of
\* it is in the reported set for the rest of that local day, and the run has
\* run to completion.
C6_DeliveredPairsAreReported ==
    \A k \in 1..Len(mailbox) :
        ( /\ pc[mailbox[k].run] \in Finished
          /\ LocalDate(now) = LocalDate(mailbox[k].at) )
            => /\ PairsOf(mailbox[k].rows)
                    \subseteq load_previously_reported_pairs(exec_for_week_col, now)
               /\ pc[mailbox[k].run] = "done"

(***************************************************************************)
(* Properties of the resolver loop                                         *)
(***************************************************************************)
\* the depth of a window: its place in WEEK_FIELDS, sinceThisWeek being 0
Depth(wk) == (CHOOSE i \in 1..Len(WEEK_FIELDS) : WEEK_FIELDS[i] = wk) - 1

TickerSet == {TICKERS[i] : i \in 1..Len(TICKERS)}

\* the places of a ticker in the result: (window, index) pairs
Places(t) ==
    {<<wk, k>> \in WeekNames \X (1..(2 * Len(TICKERS) + 2)) :
        k <= Len(resolved.weeks[wk]) /\ resolved.weeks[wk][k].ticker = t}

\* the windows whose minimum is defined and strictly above the current price
Qualifying(t) ==
    {wk \in WeekNames : min_by_interval[wk][t] # None /\ current[t] < min_by_interval[wk][t]}

Finished_Loop == resolved.done /\ ~resolved.raised

\* C7: after the resolver loop every ticker is in the list of at most one
\* window, and at most once in that list.
C7_TickerInAtMostOneWindow ==
    Finished_Loop => \A t \in AllTickers : Cardinality(Places(t)) <= 1

\* both tickers were assigned, one of them breaching every window's minimum
C7_Witness ==
    /\ Finished_Loop
    /\ Len(TICKERS) = 2
    /\ \A t \in AllTickers : Cardinality(Places(t)) = 1
    /\ \E t \in AllTickers : Qualifying(t) = WeekNames

\* C8: a ticker with a current price is assigned to the deepest window whose
\* minimum is defined and strictly greater than the price, with that price
\* and that minimum, and to no window when none qualifies.
C8_DeepestQualifyingWindow ==
    Finished_Loop =>
        \A t \in TickerSet :
            current[t] \in Prices =>
                IF Qualifying(t) = {}
                THEN Places(t) = {}
                ELSE LET best == CHOOSE wk \in Qualifying(t) :
                                    \A o \in Qualifying(t) : Depth(o) <= Depth(wk)
                     IN /\ \A pl \in Places(t) : pl[1] = best
                        /\ \E pl \in Places(t) :
                            resolved.weeks[pl[1]][pl[2]] =
                                Entry(t, current[t], min_by_interval[best][t])

\* the two examples at once: one ticker breaches the minimums of the
\* shallowest and of the deepest of three windows only and is in the deepest;
\* the other breaches those of the two shallowest only and is in the second
C8_Witness ==
    /\ Finished_Loop
    /\ Len(WEEK_FIELDS) >= 3
    /\ \E t, u \in TickerSet :
        /\ t # u
        /\ Qualifying(t) = {WEEK_FIELDS[1], WEEK_FIELDS[3]}
        /\ min_by_interval[WEEK_FIELDS[2]][t] # None
        /\ \E pl \in Places(t) : pl[1] = WEEK_FIELDS[3]
        /\ Qualifying(u) = {WEEK_FIELDS[1], WEEK_FIELDS[2]}
        /\ min_by_interval[WEEK_FIELDS[3]][u] # None
        /\ \E pl \in Places(u) : pl[1] = WEEK_FIELDS[2]

\* C9: a ticker whose current price is None has no entry in any window, and
\* every other ticker of the list is still resolved: it has an entry exactly
\* when some window qualifies.
C9_MissingPriceSkipsOnlyThatTicker ==
    Finished_Loop =>
        \A t \in TickerSet :
            /\ current[t] = None => Places(t) = {}
            /\ current[t] \in Prices => (Places(t) # {} <=> Qualifying(t) # {})

\* the first ticker has no price and the second one is assigned to a window
C9_Witness ==
    /\ Finished_Loop
    /\ Len(TICKERS) = 2
    /\ current[TICKERS[1]] = None
    /\ Places(TICKERS[1]) = {}
    /\ Places(TICKERS[2]) # {}

(***************************************************************************)
(* Properties of the daily engine                                          *)
(***************************************************************************)
\* the rows of the results list that belong to a ticker
ResultRows(t) == {k \in 1..Len(results) : results[k].ticker = t}

\* the ticker had no intraday close and its snapshot lookup gave no price
PriceUnobtainable(t) == snapshot[t] \in {None, Raise}

\* C10: in run_once a ticker without an intraday close whose snapshot lookup
\* fails has no row in the results list, hence no invest amount, and no row
\* of the list holds the placeholder price 0.
C10_UnpricedTickerIsSkipped ==
    /\ \A t \in AllTickers : PriceUnobtainable(t) => ResultRows(t) = {}
    /\ \A k \in 1..Len(results) : results[k].latest # 0

\* C11: an exception raised while one ticker is processed does not keep the
\* remaining tickers from being processed: when run_once has ended, its loop
\* has gone through every ticker of the list.
C11_ExceptionDoesNotStopOtherTickers ==
    runner_pc = "finished" => t_idx > Len(runner_TICKERS)

(***************************************************************************)
(* Properties of the classifiers                                           *)
(***************************************************************************)
\* latest < average - tenths/10 * (average - minimum), in exact arithmetic
UnderLine(price, m, tenths) ==
    10 * price * m.average.den
        < 10 * m.average.num - tenths * (m.average.num - m.minimum * m.average.den)

\* the eight breach conditions in the order of evaluation
TierConditions(price, short, long) ==
    <<price < long.minimum, price < short.minimum,
      UnderLine(price, long, 8), UnderLine(price, short, 8),
      UnderLine(price, long, 5), UnderLine(price, short, 5),
      UnderLine(price, long, 0), UnderLine(price, short, 0)>>

\* the tier of each condition
TierTable ==
    <<[amount |-> 800, label |-> "Below 90d min"],
      [amount |-> 600, label |-> "Below 30d min"],
      [amount |-> 700, label |-> "Below 80% gap (90d)"],
      [amount |-> 500, label |-> "Below 80% gap (30d)"],
      [amount |-> 500, label |-> "Below 50% gap (90d)"],
      [amount |-> 400, label |-> "Below 50% gap (30d)"],
      [amount |-> 200, label |-> "Below 90d avg"],
      [amount |-> 100, label |-> "Below 30d avg"]>>

\* the conditions that hold for the inputs of the state
Holding ==
    {i \in 1..8 : TierConditions(arg_latest, arg_m30, arg_m90)[i]}

Returned == [amount |-> ret_bucket.amount, label |-> ret_bucket.label]

\* C12: invest_bucket returns the tier of the first condition that holds in
\* the order [min90, min30, 80% line 90d, 80% line 30d, 50% line 90d, 50% line
\* 30d, avg90, avg30], and (0, "No signal") when none holds.
C12_FirstHoldingConditionWins ==
    ret_bucket.done =>
        IF Holding = {}
        THEN Returned = [amount |-> 0, label |-> "No signal"]
        ELSE \E i \in Holding :
                /\ \A j \in Holding : i <= j
                /\ Returned = TierTable[i]

\* the 30-day 80% line is the first condition that holds, later ones hold too
C12_Witness ==
    /\ ret_bucket.done
    /\ 4 \in Holding
    /\ \A j \in Holding : 4 <= j
    /\ Cardinality(Holding) >= 3
    /\ Returned = TierTable[4]

\* C13: the amount invest_bucket returns is the highest weight among the
\* tiers whose condition the latest price satisfies (0 when none is satisfied).
C13_AmountIsHighestSatisfiedWeight ==
    ret_bucket.done =>
        /\ \A i \in Holding : TierTable[i].amount <= ret_bucket.amount
        /\ (Holding # {} => \E i \in Holding : TierTable[i].amount = ret_bucket.amount)
        /\ (Holding = {} => ret_bucket.amount = 0)

\* gap = average - minimum <= 0
Degenerate(m) == m.average.num <= m.minimum * m.average.den

\* C14: when a window's gap is <= 0, invest_bucket never returns that
\* window's 80%-gap or 50%-gap tier, and analyze_and_store_execution_state
\* adds the ticker to neither percentage-gap field of that window.
C14_DegenerateWindowHasNoGapTier ==
    /\ ret_bucket.done =>
        /\ Degenerate(arg_m30) =>
            ret_bucket.label \notin {"Below 80% gap (30d)", "Below 50% gap (30d)"}
        /\ Degenerate(arg_m90) =>
            ret_bucket.label \notin {"Below 80% gap (90d)", "Below 50% gap (90d)"}
    /\ ret_state_doc.done =>
        /\ Degenerate(arg_m30) =>
            ret_state_doc.fields \cap {"lessThan80PctDiff30", "lessThan50PctDiff30"} = {}
        /\ Degenerate(arg_m90) =>
            ret_state_doc.fields \cap {"lessThan80PctDiff90", "lessThan50PctDiff90"} = {}

\* the 30-day gap is negative and the price lies under the 30-day 80% line:
\* the bucket is the 30-day minimum tier, the analyzer records the minimum
\* match, and the 90-day window, whose gap is positive, keeps its gap matches
C14_Witness ==
    /\ ret_bucket.done
    /\ ret_state_doc.done
    /\ arg_m30.average.num < arg_m30.minimum * arg_m30.average.den
    /\ ~Degenerate(arg_m90)
    /\ UnderLine(arg_latest, arg_m30, 8)
    /\ ret_bucket.label = "Below 30d min"
    /\ "lessThanMin30" \in ret_state_doc.fields
    /\ "lessThan50PctDiff90" \in ret_state_doc.fields

\* price = average - tenths/10 * (average - minimum), in exact arithmetic
OnLine(price, m, tenths) ==
    10 * price * m.average.den
        = 10 * m.average.num - tenths * (m.average.num - m.minimum * m.average.den)

\* C15: a price exactly equal to a threshold (minimum, average, 80%-gap line,
\* 50%-gap line) does not breach it: invest_bucket does not return that
\* threshold's tier, analyze_and_store_execution_state does not record that
\* threshold's field, and the weekly scan does not place the ticker in a
\* window whose minimum equals the price.
C15_EqualityIsNoBreach ==
    /\ ret_bucket.done =>
        /\ arg_latest = arg_m90.minimum => ret_bucket.label # "Below 90d min"
        /\ arg_latest = arg_m30.minimum => ret_bucket.label # "Below 30d min"
        /\ OnLine(arg_latest, arg_m90, 8) => ret_bucket.label # "Below 80% gap (90d)"
        /\ OnLine(arg_latest, arg_m30, 8) => ret_bucket.label # "Below 80% gap (30d)"
        /\ OnLine(arg_latest, arg_m90, 5) => ret_bucket.label # "Below 50% gap (90d)"
        /\ OnLine(arg_latest, arg_m30, 5) => ret_bucket.label # "Below 50% gap (30d)"
        /\ OnLine(arg_latest, arg_m90, 0) => ret_bucket.label # "Below 90d avg"
        /\ OnLine(arg_latest, arg_m30, 0) => ret_bucket.label # "Below 30d avg"
    /\ ret_state_doc.done =>
        /\ arg_latest = arg_m90.minimum => "lessThanMin90" \notin ret_state_doc.fields
        /\ arg_latest = arg_m30.minimum => "lessThanMin30" \notin ret_state_doc.fields
        /\ OnLine(arg_latest, arg_m90, 8) => "lessThan80PctDiff90" \notin ret_state_doc.fields
        /\ OnLine(arg_latest, arg_m30, 8) => "lessThan80PctDiff30" \notin ret_state_doc.fields
        /\ OnLine(arg_latest, arg_m90, 5) => "lessThan50PctDiff90" \notin ret_state_doc.fields
        /\ OnLine(arg_latest, arg_m30, 5) => "lessThan50PctDiff30" \notin ret_state_doc.fields
        /\ OnLine(arg_latest, arg_m90, 0) => "lessThanAvg90" \notin ret_state_doc.fields
        /\ OnLine(arg_latest, arg_m30, 0) => "lessThanAvg30" \notin ret_state_doc.fields
    /\ ret_weeks.done =>
        \A wk \in WeekNames :
            arg_minimums[wk] = arg_current => ret_weeks.weeks[wk] = <<>>

\* average 100 and minimum 80 in both windows and a price of 84, in units of
\* 20: the price sits on the 80% line and the bucket is the 50%-gap tier
C15_Witness ==
    /\ ret_bucket.done
    /\ arg_m30 = [defined |-> TRUE, average |-> [num |-> 5, den |-> 1], minimum |-> 0]
    /\ arg_m90 = [defined |-> TRUE, average |-> [num |-> 5, den |-> 1], minimum |-> 0]
    /\ arg_latest = 1
    /\ OnLine(arg_latest, arg_m90, 8)
    /\ ret_bucket.amount = 500
    /\ ret_bucket.label = "Below 50% gap (90d)"
    /\ ret_state_doc.done
    /\ ret_state_doc.fields \cap {"lessThan80PctDiff90", "lessThan50PctDiff90"}
            = {"lessThan50PctDiff90"}

(***************************************************************************)
(* Properties of the window statistics                                     *)
(***************************************************************************)
\* one of the two series has fewer than n samples
ShorterThan(n) == Len(arg_close_series) < n \/ Len(arg_low_series) < n

\* C16: for a series shorter than the window compute_window_metrics returns
\* None, and run_once appends no result for a ticker whose cached series is
\* shorter than one of its two windows (an empty series included).
C16_ShortSeriesGivesNoMetrics ==
    /\ (ret_metrics.done /\ ShorterThan(arg_window_days)) =>
            ret_metrics.m = NoMetrics
    /\ (ret_results.done /\ (ShorterThan(ShortWindow) \/ ShorterThan(LongWindow))) =>
            ret_results.results = <<>>

\* a one-sample series against a window of two: no metrics, and the ticker,
\* whose history reaches the short window but not the long one, has no result
C16_Witness ==
    /\ ret_metrics.done
    /\ ret_results.done
    /\ Len(arg_close_series) = 1
    /\ Len(arg_low_series) = 1
    /\ arg_window_days = LongWindow
    /\ ~ShorterThan(ShortWindow)
    /\ ret_metrics.m = NoMetrics
    /\ ret_results.results = <<>>

\* the positions of the last n samples
LastIndices(xs, n) == (Len(xs) - n + 1)..Len(xs)

RECURSIVE SumAt(_, _)
\* the sum of the samples at the positions S
SumAt(xs, S) ==
    IF S = {} THEN 0
    ELSE LET i == CHOOSE j \in S : TRUE
         IN xs[i] + SumAt(xs, S \ {i})

\* m is the mean of the last n closes and the minimum of the last n lows
IsLastNStatistics(m, n) ==
    /\ m.defined
    /\ m.average.num * n = m.average.den * SumAt(arg_close_series, LastIndices(arg_close_series, n))
    /\ \E i \in LastIndices(arg_low_series, n) : m.minimum = arg_low_series[i]
    /\ \A i \in LastIndices(arg_low_series, n) : m.minimum <= arg_low_series[i]

\* C17: for series with at least N samples compute_window_metrics (and
\* alerts.compute_metrics) returns the mean of the last N closes and the
\* minimum of the last N lows, and any other series with the same last N
\* samples gives the same result.
C17_ExactlyTheLastNSamples ==
    /\ (ret_metrics.done /\ ~ShorterThan(arg_window_days)) =>
        /\ IsLastNStatistics(ret_metrics.m, arg_window_days)
        /\ \A c2 \in Series, l2 \in Series :
            (/\ Len(c2) >= arg_window_days
             /\ Len(l2) >= arg_window_days
             /\ LastN(c2, arg_window_days) = LastN(arg_close_series, arg_window_days)
             /\ LastN(l2, arg_window_days) = LastN(arg_low_series, arg_window_days))
                => compute_window_metrics(c2, l2, arg_window_days) = ret_metrics.m
    /\ (ret_alerts_metrics.done /\ ~ShorterThan(arg_window_days)) =>
        /\ IsLastNStatistics(ret_alerts_metrics.m, arg_window_days)
        /\ \A c2 \in Series, l2 \in Series :
            (/\ Len(c2) = Len(l2)
             /\ Len(c2) >= arg_window_days
             /\ LastN(c2, arg_window_days) = LastN(arg_close_series, arg_window_days)
             /\ LastN(l2, arg_window_days) = LastN(arg_low_series, arg_window_days))
                => compute_metrics(zip(c2, l2), arg_window_days) = ret_alerts_metrics.m

\* three samples against a window of two, the oldest with the highest close
\* and the lowest low: neither enters the average or the minimum
C17_Witness ==
    /\ ret_metrics.done
    /\ ret_alerts_metrics.done
    /\ arg_window_days = 2
    /\ arg_close_series = <<2, 1, 1>>
    /\ arg_low_series = <<1, 2, 2>>
    /\ ret_metrics.m = [defined |-> TRUE, average |-> [num |-> 2, den |-> 2], minimum |-> 2]
    /\ ret_alerts_metrics.m = ret_metrics.m

\* the documents a facet starting at start selects
Matched(start) == {i \in 1..Len(arg_close_series) : i >= start}

\* C18: in the daily and in the weekly engine a window's minimum is the
\* minimum of the low values of the selected samples, not of their close
\* values, and the average is taken over the close values.
C18_MinimumIsOverLows ==
    /\ (ret_metrics.done /\ ~ShorterThan(arg_window_days)) =>
        /\ ret_metrics.m.average.num * arg_window_days
                = ret_metrics.m.average.den
                    * SumAt(arg_close_series, LastIndices(arg_close_series, arg_window_days))
        /\ \A i \in LastIndices(arg_low_series, arg_window_days) :
                ret_metrics.m.minimum <= arg_low_series[i]
    /\ (ret_facet.done /\ Matched(arg_since) # {}) =>
        /\ \E i \in Matched(arg_since) : ret_facet.minimumClose = arg_low_series[i]
        /\ \A i \in Matched(arg_since) : ret_facet.minimumClose <= arg_low_series[i]

(***************************************************************************)
(* Properties of the dedup state                                           *)
(***************************************************************************)
\* the document holds the pair, is marked notified and was created on the
\* local day of the query
ReportsToday(doc, tk, wk) ==
    /\ doc.isNotified
    /\ LocalDate(doc.createDatetime) = LocalDate(arg_now)
    /\ \E k \in 1..Len(doc.weeks[wk]) : doc.weeks[wk][k].ticker = tk

\* C19: load_previously_reported_pairs returns exactly the (ticker, weekFlag)
\* pairs of the execution records that are marked isNotified and were created
\* within [local midnight, local midnight + 1 day) of the current local day.
C19_ExactlyTodaysNotifiedPairs ==
    ret_pairs.done =>
        /\ ret_pairs.pairs \subseteq AllPairs
        /\ \A tk \in AllTickers, wk \in WeekNames :
            <<tk, wk>> \in ret_pairs.pairs
                <=> \E i \in 1..Len(arg_col) : ReportsToday(arg_col[i], tk, wk)

\* a notified record of today beside a notified record of the day before
\* and holding another pair: only today's pair is returned
C19_Witness ==
    /\ ret_pairs.done
    /\ Len(arg_col) = 2
    /\ arg_col[1].isNotified
    /\ arg_col[2].isNotified
    /\ LocalDate(arg_col[1].createDatetime) < LocalDate(arg_now)
    /\ LocalDate(arg_col[2].createDatetime) = LocalDate(arg_now)
    /\ DocPairs(arg_col[1]) = {<<"BNS.TO", "sinceThisWeek">>}
    /\ DocPairs(arg_col[2]) = {<<"BCE.TO", "sinceThisWeek">>}
    /\ ret_pairs.pairs = {<<"BCE.TO", "sinceThisWeek">>}

\* the positions of a window's entries whose pair is not in the reported set
KeptPositions(wk) ==
    {k \in 1..Len(arg_w2t[wk]) : <<arg_w2t[wk][k].ticker, wk>> \notin arg_reported}

\* C20: filter_already_reported_week_signals returns a mapping with the
\* window keys of its input in which each window's list is the input list,
\* in the same order, without exactly the entries whose (ticker, window)
\* pair is in the reported set.
C20_FilterRemovesExactlyReportedPairs ==
    ret_filtered.done =>
        /\ DOMAIN ret_filtered.weeks = DOMAIN arg_w2t
        /\ \A wk \in DOMAIN arg_w2t :
            /\ Len(ret_filtered.weeks[wk]) = Cardinality(KeptPositions(wk))
            /\ \A k \in KeptPositions(wk) :
                ret_filtered.weeks[wk][Cardinality({j \in KeptPositions(wk) : j <= k})]
                    = arg_w2t[wk][k]

\* two tickers in one window, the first of them reported for that window and
\* the second reported for another window only: the second alone stays
C20_Witness ==
    /\ ret_filtered.done
    /\ arg_w2t["sinceThisWeek"] = <<Entry("BCE.TO", 1, 2), Entry("BNS.TO", 1, 2)>>
    /\ arg_w2t["sincePast1Weeks"] = <<Entry("BNS.TO", 1, 2), Entry("BCE.TO", 1, 2)>>
    /\ arg_reported = {<<"BCE.TO", "sinceThisWeek">>, <<"BNS.TO", "sincePast2Weeks">>}
    /\ ret_filtered.weeks["sinceThisWeek"] = <<Entry("BNS.TO", 1, 2)>>
    /\ ret_filtered.weeks["sincePast1Weeks"] = arg_w2t["sincePast1Weeks"]

(***************************************************************************)
(* Properties of the dedup state across runs                               *)
(***************************************************************************)
\* C21: dedup is keyed on the (ticker, window) pair: a pair of a notification
\* delivered today is in no later run's rows of the day, and a pair a run
\* resolved that is not in the reported set it loaded is in its rows, also
\* when the ticker was reported for another window.
C21_DedupKeyedOnPair ==
    /\ \A k \in 1..Len(mailbox) : \A r \in Runs :
        ( /\ mailbox[k].run < r
          /\ pc[r] \in PastFilter
          /\ LocalDate(mailbox[k].at) = LocalDate(now) )
            => PairsOf(rows[r]) \cap PairsOf(mailbox[k].rows) = {}
    /\ \A r \in Runs :
        pc[r] \in PastFilter
            => WeekPairs(week_to_tickers[r]) \ previously_reported[r]
                    \subseteq PairsOf(rows[r])

\* the pairs of the notified documents created on the local day d or later
NotifiedSince(d) ==
    UNION {DocPairs(exec_for_week_col[i]) :
            i \in {j \in 1..Len(exec_for_week_col) :
                      /\ exec_for_week_col[j].isNotified
                      /\ LocalDate(exec_for_week_col[j].createDatetime) >= d}}

Deeper(wk) == {o \in WeekNames : Depth(o) > Depth(wk)}

\* C23: a window without a minimum for the ticker is skipped and the scan
\* goes on: the ticker is never placed in such a window, and a ticker whose
\* deeper windows all lack a minimum is placed in the window it breaches.
C23_WindowWithoutMinimumIsSkipped ==
    Finished_Loop =>
        \A t \in TickerSet :
            current[t] \in Prices =>
                /\ \A pl \in Places(t) : min_by_interval[pl[1]][t] # None
                /\ \A wk \in Qualifying(t) :
                    (\A o \in Deeper(wk) : min_by_interval[o][t] = None)
                        => \E pl \in Places(t) : pl[1] = wk

\* a ticker without data in the two deepest windows, placed in the
\* shallowest, while the other ticker has data everywhere
C23_Witness ==
    /\ Finished_Loop
    /\ Len(WEEK_FIELDS) >= 3
    /\ \E t \in TickerSet :
        /\ current[t] \in Prices
        /\ \A o \in Deeper(WEEK_FIELDS[1]) : min_by_interval[o][t] = None
        /\ WEEK_FIELDS[1] \in Qualifying(t)
        /\ \E pl \in Places(t) : pl[1] = WEEK_FIELDS[1]

(***************************************************************************)
(* Properties of the price bounds of the tiers                             *)
(***************************************************************************)
\* x < y for two fractions with positive denominators
FracLess(x, y) == x.num * y.den < y.num * x.den

\* the four price bounds of one window: minimum, 80% line, 50% line, average
WindowBounds(m) ==
    <<[num |-> m.minimum, den |-> 1], gap_line(m.average, m.minimum, 8),
      gap_line(m.average, m.minimum, 5), m.average>>

\* the eight price bounds in the order of evaluation
TierBounds(short, long) ==
    <<WindowBounds(long)[1], WindowBounds(short)[1],
      WindowBounds(long)[2], WindowBounds(short)[2],
      WindowBounds(long)[3], WindowBounds(short)[3],
      WindowBounds(long)[4], WindowBounds(short)[4]>>

Labels30 ==
    <<"Below 30d min", "Below 80% gap (30d)", "Below 50% gap (30d)", "Below 30d avg">>

Labels90 ==
    <<"Below 90d min", "Below 80% gap (90d)", "Below 50% gap (90d)", "Below 90d avg">>

\* a returned tier of the window has the price under its bound and not under
\* the bound of the window's tier before it
InBand(m, labels) ==
    \A k \in 1..4 :
        ret_bucket.label = labels[k]
            => /\ Below(arg_latest, WindowBounds(m)[k])
               /\ k > 1 => ~Below(arg_latest, WindowBounds(m)[k - 1])

\* C24 as stated: along the evaluation order of invest_bucket each tier's
\* price bound is strictly below the bound of the tier before it, for every
\* pair of 30-day and 90-day statistics.
C24_BoundsNestedAlongOrder ==
    ret_bucket.done =>
        \A k \in 1..7 :
            FracLess(TierBounds(arg_m30, arg_m90)[k + 1], TierBounds(arg_m30, arg_m90)[k])

\* C24 amended: within one window with a positive gap the price bounds are
\* strictly ascending in the order of evaluation (minimum, 80% line, 50%
\* line, average), and a returned tier of a window has the price in the band
\* between that tier's bound and the bound of the window's tier before it.
C24_BoundsAscendWithinWindow ==
    ret_bucket.done =>
        /\ \A m \in {arg_m30, arg_m90} :
            ~Degenerate(m)
                => \A k \in 1..3 : FracLess(WindowBounds(m)[k], WindowBounds(m)[k + 1])
        /\ InBand(arg_m30, Labels30)
        /\ InBand(arg_m90, Labels90)

\* both gaps are positive, the bounds of the two windows interleave out of
\* order (the 30-day minimum lies above the 90-day 80% line) and the bucket
\* is the 30-day 50%-gap tier
C24_Witness ==
    /\ ret_bucket.done
    /\ ~Degenerate(arg_m30)
    /\ ~Degenerate(arg_m90)
    /\ FracLess(TierBounds(arg_m30, arg_m90)[3], TierBounds(arg_m30, arg_m90)[2])
    /\ ret_bucket.label = "Below 50% gap (30d)"
    /\ ~Below(arg_latest, WindowBounds(arg_m30)[2])

(***************************************************************************)
(* Properties of overlapping runs                                          *)
(***************************************************************************)
\* the tickers a pre-filter result places
PlacedTickers(w2t) == {p[1] : p \in WeekPairs(w2t)}

\* the pairs of the notified documents that other runs than r inserted
NotifiedByOthers(r) ==
    UNION {DocPairs(exec_for_week_col[i]) :
            i \in {j \in 1..Len(exec_for_week_col) :
                      exec_for_week_col[j].isNotified /\ exec_for_week_col[j].id # r}}

\* a run that has left ensure_yesterday_data_if_needed and goes on
PastEnsure == {"classify", "filter"} \cup PastFilter

\* C25 as stated, its last part: the persisted execution records are the
\* only state through which one run affects the signals of another, so
\* whether a run fetches the bars its minimums are computed from does not
\* depend on the other runs: every run that went on to the classification
\* has made its own fetch pass.
C25_ExecutionRecordsAreTheOnlySharedState ==
    Cardinality({r \in Runs : pc[r] \in PastEnsure}) <= Len(fetch_log)

\* C25 amended: with overlapping runs, a run's rows are its own pre-filter
\* result without the pairs of the reported set it read, that set holds pairs
\* of notified records of other runs only, and the pre-filter result places
\* no ticker without bars in the price store that the runs share.
C25_PersistedCollectionsAreTheSharedState ==
    \A r \in Runs :
        /\ PlacedTickers(week_to_tickers[r]) \subseteq price_5m_col
        /\ pc[r] \in PastFilter =>
            /\ previously_reported[r] \subseteq NotifiedByOthers(r)
            /\ rows[r] =
                aggregate_week_matches(
                    sorted_reverse(WEEK_FIELDS),
                    filter_already_reported_week_signals(week_to_tickers[r],
                                                         previously_reported[r]))

\* both runs read an empty reported set before either saved its notified
\* record, and both delivered the same pair on the same day
C25_Witness ==
    /\ pc[1] = "done"
    /\ pc[2] = "done"
    /\ sent[1]
    /\ sent[2]
    /\ previously_reported[1] = {}
    /\ previously_reported[2] = {}
    /\ PairsOf(rows[1]) \cap PairsOf(rows[2]) # {}
    /\ Len(mailbox) = 2
    /\ LocalDate(mailbox[1].at) = LocalDate(mailbox[2].at)
    /\ \A r \in Runs : \E i \in DocsOf(r) : exec_for_week_col[i].isNotified

(***************************************************************************)
(* Properties of the reported set from step to step                        *)
(***************************************************************************)
\* the step appends a notified document
NotifiedSave ==
    /\ Len(exec_for_week_col') = Len(exec_for_week_col) + 1
    /\ exec_for_week_col'[Len(exec_for_week_col')].isNotified

\* the run that inserted the last document after the step
Saver == exec_for_week_col'[Len(exec_for_week_col')].id

\* C26: the save of a notified run adds exactly the pairs sent in that run
\* to the reported set, any other step that does not change the clock leaves
\* the reported set as it is, and within one local day the set never shrinks.
C26_ReportedSetGrowsByTheSentPairs ==
    [][ /\ NotifiedSave =>
            load_previously_reported_pairs(exec_for_week_col', now')
                = load_previously_reported_pairs(exec_for_week_col, now)
                    \cup PairsOf(rows[Saver])
        /\ (~NotifiedSave /\ now' = now) =>
            load_previously_reported_pairs(exec_for_week_col', now')
                = load_previously_reported_pairs(exec_for_week_col, now)
        /\ LocalDate(now') = LocalDate(now) =>
            load_previously_reported_pairs(exec_for_week_col, now)
                \subseteq load_previously_reported_pairs(exec_for_week_col', now')
      ]_vars

(***************************************************************************)
(* Properties of the week windows                                          *)
(***************************************************************************)
\* the windows of a ticker that have data
WithData(t) == {wk \in WeekNames : min_by_interval[wk][t] # None}

\* the windows whose minimum a priced ticker breaches
Breached(t) ==
    IF current[t] \in Prices THEN Qualifying(t) ELSE {}

\* C27: every deeper window starts no later than each shallower one, a
\* ticker's window minimum does not increase with depth, and a ticker that
\* breaches a window's minimum breaches the minimum of every shallower
\* window that has data.
C27_WindowsNestedAndBreachesDownwardClosed ==
    /\ \A a, b \in WeekNames : Depth(a) < Depth(b) => facet_start(b) <= facet_start(a)
    /\ resolved.done =>
        \A t \in AllTickers : \A a, b \in WeekNames :
            Depth(a) < Depth(b) =>
                /\ a \in WithData(t) => (b \in WithData(t) /\ min_by_interval[b][t] <= min_by_interval[a][t])
                /\ (b \in Breached(t) /\ a \in WithData(t)) => a \in Breached(t)

\* one ticker breaches two windows and has no bar this week, the other has
\* a deeper minimum strictly below a shallower one
C27_Witness ==
    /\ resolved.done
    /\ \E t \in AllTickers :
        /\ Cardinality(Breached(t)) = 2
        /\ "sinceThisWeek" \notin WithData(t)
    /\ \E t \in AllTickers :
        /\ min_by_interval["sinceThisWeek"][t] = 2
        /\ min_by_interval[SincePast(MaxWeekSpan)][t] = 1

(***************************************************************************)
(* Properties of ensure_yesterday_data_if_needed                           *)
(***************************************************************************)
\* C28: over sequential runs yesterday's bars are fetched at most once per
\* local day, and after a fetch pass the day of the pass is the recorded
\* day whatever the pass stored.
C28_FetchAtMostOncePerLocalDay ==
    /\ \A i, j \in 1..Len(fetch_log) : i < j => fetch_log[i] # fetch_log[j]
    /\ fetch_log # <<>> =>
            get_last_update_local_date(daily_log_col) = fetch_log[Len(fetch_log)]

(***************************************************************************)
(* Properties of the day marker of runner.py                               *)
(***************************************************************************)
\* call i of is_first_run_today is the first one of its local day
FirstOfDay(i) ==
    \A j \in 1..(i - 1) : first_run_log[j].day # first_run_log[i].day

\* the step holds a call of is_first_run_today
MarkerCall == Len(first_run_log') = Len(first_run_log) + 1

\* C29: is_first_run_today answers True exactly on the first call of a
\* local day and leaves the day in the marker on every call; a later run of
\* the day downloads no history and leaves every cache file as it is, so
\* each ticker's download is attempted at most once per local day, and a
\* run reports only tickers that have a cache file.
C29_HistoryDownloadedAtMostOncePerDay ==
    [][ /\ \A i \in 1..Len(first_run_log') :
                first_run_log'[i].refresh <=> FirstOfDay(i)'
        /\ MarkerCall =>
                /\ cache_date' = isoformat(first_run_log'[Len(first_run_log')].day)
                /\ ~first_run_log'[Len(first_run_log')].refresh =>
                        history_csv' = history_csv
        /\ \A k \in 1..Len(results') : history_csv'[results'[k].ticker] # <<>>
      ]_vars

\* the second run of the day is over: it made no download, skipped the
\* ticker whose download had failed and reported the other from its file
C29_Witness ==
    /\ runner_pc = "finished"
    /\ first_run_log = <<[day |-> 0, refresh |-> TRUE], [day |-> 0, refresh |-> FALSE]>>
    /\ history_csv["BCE.TO"] = <<>>
    /\ history_csv["BNS.TO"] # <<>>
    /\ \E k \in 1..Len(results) : results[k].ticker = "BNS.TO"

(***************************************************************************)
(* Properties of the amounts of invest_bucket                              *)
(***************************************************************************)
\* the steps list of amount_to_color
steps == <<0, 100, 200, 400, 500, 600, 700, 800>>

\* the window's minimum is not above its average
MinimumUnderAverage(m) == m.minimum * m.average.den <= m.average.num

\* C30: when the minimum is not above the average in both windows,
\* invest_bucket returns (0, "No signal") exactly when the latest price is
\* at least the 30-day and the 90-day average; the amount is always one of
\* 0, 100, 200, 400, 500, 600, 700, 800 and is 0 only with "No signal".
C30_NoSignalExactlyAtOrAboveBothAverages ==
    ret_bucket.done =>
        /\ (MinimumUnderAverage(arg_m30) /\ MinimumUnderAverage(arg_m90)) =>
                (Returned = [amount |-> 0, label |-> "No signal"]
                    <=> (~Below(arg_latest, arg_m30.average)
                            /\ ~Below(arg_latest, arg_m90.average)))
        /\ \E i \in 1..Len(steps) : ret_bucket.amount = steps[i]
        /\ ret_bucket.amount = 0 => ret_bucket.label = "No signal"

\* the latest price is on the 30-day average and above the 90-day average,
\* both windows with a positive gap: no signal
C30_Witness ==
    /\ ret_bucket.done
    /\ Returned = [amount |-> 0, label |-> "No signal"]
    /\ arg_m30.minimum < arg_m30.average.num
    /\ arg_m90.minimum < arg_m90.average.num
    /\ arg_latest = arg_m30.average.num
    /\ arg_latest > arg_m90.average.num

====
